---- MODULE Spec2Model ----
(***************************************************************************)
(* A model of the OpenVDAFS decode pipeline: the fixed-column reader       *)
(* (reader.py), the name/type index (index.py, query.py), and the CURVE    *)
(* and SURF decoders and evaluators (curve_eval.py, surf_eval.py).         *)
(*                                                                         *)
(* Numbers.  A Python number (int or float) is modelled by an exact        *)
(* rational <<n, d>> in lowest terms with d > 0.  The values the model     *)
(* draws are small integers and halves, which IEEE doubles represent       *)
(* exactly; float rounding of other values is outside the model.           *)
(*                                                                         *)
(* Tokens.  An element of an entity's params list is a number or a string  *)
(* (a reference such as SR85, or an opaque word).  A token is the record   *)
(* [k, n, d, s]: k = "num" with value n/d, or k = "str" with characters s. *)
(*                                                                         *)
(* Errors.  Every decoder failure is a Python exception; the model keeps   *)
(* the exception's message (for the decoders' own raise statements) or     *)
(* the exception's class (for the ones int(), float() and indexing raise). *)
(***************************************************************************)
EXTENDS Integers, Sequences, FiniteSets, TLC

VARIABLES
    c_pc, c_params, c_curve, c_err, c_op,      \* CURVE decode / evaluate / sample
    s_pc, s_params, s_surf, s_err, s_op,       \* SURF decode / evaluate
    i_pc, i_model, i_pos, i_index, i_query,    \* build_index and the queries
    r_pc, r_file, r_pos, r_buf, r_start_no,    \* read_vdafs over _coalesce_statements
    r_header, r_entities,
    k_pc, k_entity, k_cons, k_err,             \* decode_cons_entity
    f_pc, f_entity, f_i, f_cnt, f_left,        \* decode_face_entity
    f_items, f_loops, f_err,
    q_pc, q_params, q_surf, q_m, q_seams,      \* check_surf
    e_pc, e_src, e_face, e_model, e_ordered,   \* write_face_file and re-read
    e_lines, e_back, e_err,
    n_pc, n_file, n_at, n_line, n_plain,       \* read_vdafs with a line inserted
    n_edited,
    t_pc, t_tail, t_tokens, t_types            \* _split_params

cvars == <<c_pc, c_params, c_curve, c_err, c_op>>
svars == <<s_pc, s_params, s_surf, s_err, s_op>>
ivars == <<i_pc, i_model, i_pos, i_index, i_query>>
rvars == <<r_pc, r_file, r_pos, r_buf, r_start_no, r_header, r_entities>>
kvars == <<k_pc, k_entity, k_cons, k_err>>
\* The components other than the reader, the index, CURVE and SURF.
fvars == <<f_pc, f_entity, f_i, f_cnt, f_left, f_items, f_loops, f_err>>
qvars == <<q_pc, q_params, q_surf, q_m, q_seams>>
evars == <<e_pc, e_src, e_face, e_model, e_ordered, e_lines, e_back, e_err>>
nvars == <<n_pc, n_file, n_at, n_line, n_plain, n_edited>>
tvars == <<t_pc, t_tail, t_tokens, t_types>>
xvars == <<kvars, fvars, qvars, evars, nvars, tvars>>
vars == <<cvars, svars, ivars, rvars, xvars>>

----------------------------------------------------------------------------
(* Bounds of the model. *)

MaxSeg == 2          \* segments of a generated CURVE
MaxOrder == 2        \* polynomial order K of a generated segment or patch
MaxSamples == 3      \* largest samples_per_segment passed to sample_curve
MaxPatch == 2        \* patches of a generated SURF in each direction
MaxLines == 3        \* lines of a generated file
MaxEnt == 3          \* entities of a generated model to index

----------------------------------------------------------------------------
(* Exact arithmetic standing for Python's int and float values. *)

Abs(a) == IF a < 0 THEN -a ELSE a

RECURSIVE GCD(_, _)
GCD(a, b) == IF b = 0 THEN a ELSE GCD(b, a % b)

\* The rational n/d in lowest terms with a positive denominator.
Rat(n, d) ==
    LET sg == IF d < 0 THEN -1 ELSE 1
        g  == GCD(Abs(n), Abs(d))
    IN  <<(sg * n) \div g, (sg * d) \div g>>

RInt(a) == <<a, 1>>
RAdd(a, b) == Rat(a[1] * b[2] + b[1] * a[2], a[2] * b[2])
RSub(a, b) == Rat(a[1] * b[2] - b[1] * a[2], a[2] * b[2])
RMul(a, b) == Rat(a[1] * b[1], a[2] * b[2])
RDiv(a, b) == Rat(a[1] * b[2], a[2] * b[1])
RLt(a, b) == a[1] * b[2] < b[1] * a[2]
RLe(a, b) == a[1] * b[2] <= b[1] * a[2]

\* Python's int(x) of a number: truncation toward zero.
Trunc(a) == IF a[1] >= 0 THEN a[1] \div a[2] ELSE -((-a[1]) \div a[2])

----------------------------------------------------------------------------
(* Tokens of a params list. *)

Num(n, d) == [k |-> "num", n |-> Rat(n, d)[1], d |-> Rat(n, d)[2], s |-> <<>>]
Str(s) == [k |-> "str", n |-> 0, d |-> 1, s |-> s]
NumR(r) == Num(r[1], r[2])

\* isinstance(v, (int, float))
IsNumeric(tok) == tok.k = "num"
Val(tok) == <<tok.n, tok.d>>

\* Python sequence access: 0-based index, and the slice seq[a:b].
At(seq, i) == seq[i + 1]
Slice(seq, a, b) == SubSeq(seq, a + 1, b)

\* The exception int(tok) or float(tok) raises on a string that is no number.
\* Every string the reader leaves in a params list is one (reader.py _to_number).
BadLiteral == "ValueError: invalid literal"

----------------------------------------------------------------------------
(* curve_eval.py: _decode_curve_params *)

NoCurve == [n |-> 0, pars |-> <<>>, segments |-> <<>>]
Raise(msg) == [ok |-> FALSE, err |-> msg, curve |-> NoCurve]

AllNumeric(arr) == \A j \in 1..Len(arr) : IsNumeric(arr[j])

\* A decoder that lets an order of 0 through.
OrderInvalid_Strict(K) == K < 0

\* if K <= 0: raise
OrderInvalid(K) == K <= 0

\* A decoder without the zero-length check.
ZeroLength_Never(t0, t1) == FALSE

\* if t1 == t0: raise
ZeroLength(t0, t1) == t1 = t0

\* The body of `for k in range(n)`, iterations k, k+1, ..., n-1, with the
\* cursor i into seg_data and the segments appended so far.
RECURSIVE CurveSegLoop(_, _, _, _, _, _)
CurveSegLoop(seg_data, pars, n, k, i, segs) ==
    IF k >= n THEN [ok |-> TRUE, err |-> "", curve |-> [n |-> n, pars |-> pars, segments |-> segs]]
    ELSE IF i >= Len(seg_data) THEN Raise("CURVE missing segment block")
    ELSE IF ~IsNumeric(At(seg_data, i)) THEN Raise(BadLiteral)
    ELSE
      LET K  == Trunc(Val(At(seg_data, i)))
          i1 == i + 1
      IN  IF OrderInvalid(K) THEN Raise("CURVE segment order must be positive")
          ELSE IF i1 + 3 * K > Len(seg_data) THEN Raise("CURVE segment coefficients incomplete")
          ELSE
            LET ax == Slice(seg_data, i1, i1 + K)
                ay == Slice(seg_data, i1 + K, i1 + 2 * K)
                az == Slice(seg_data, i1 + 2 * K, i1 + 3 * K)
            IN  IF ~(AllNumeric(ax) /\ AllNumeric(ay) /\ AllNumeric(az))
                  THEN Raise("CURVE coefficients must be numeric")
                ELSE IF ~IsNumeric(At(pars, k)) \/ ~IsNumeric(At(pars, k + 1))
                  THEN Raise(BadLiteral)
                ELSE
                  LET t0 == Val(At(pars, k))
                      t1 == Val(At(pars, k + 1))
                  IN  IF ZeroLength(t0, t1) THEN Raise("CURVE global parameter interval has zero length")
                      ELSE CurveSegLoop(seg_data, pars, n, k + 1, i1 + 3 * K,
                             Append(segs, [order |-> K, ax |-> ax, ay |-> ay, az |-> az,
                                           t0 |-> t0, t1 |-> t1]))

_decode_curve_params(params) ==
    IF Len(params) < 1 THEN Raise("CURVE has no parameters")
    ELSE IF ~IsNumeric(params[1]) THEN Raise(BadLiteral)
    ELSE
      LET n == Trunc(Val(params[1]))
      IN  IF n <= 0 THEN Raise("CURVE segment count must be positive")
          ELSE IF Len(params) < 1 + (n + 1) THEN Raise("CURVE missing global parameters")
          ELSE CurveSegLoop(Slice(params, 1 + (n + 1), Len(params)),
                            Slice(params, 1, 1 + (n + 1)), n, 0, 0, <<>>)

----------------------------------------------------------------------------
(* curve_eval.py: _eval_monomial, eval_curve_at_t, sample_curve *)

\* s = 0.0; p = 1.0; for c in coeffs: s += c * p; p *= u
RECURSIVE MonomialLoop(_, _, _, _, _)
MonomialLoop(coeffs, u, j, s, p) ==
    IF j > Len(coeffs) THEN s
    ELSE MonomialLoop(coeffs, u, j + 1, RAdd(s, RMul(Val(coeffs[j]), p)), RMul(p, u))

_eval_monomial(coeffs, u) == MonomialLoop(coeffs, u, 1, RInt(0), RInt(1))

SegPoint(seg, u) ==
    <<_eval_monomial(seg.ax, u), _eval_monomial(seg.ay, u), _eval_monomial(seg.az, u)>>

\* An evaluator that clamps at the upper end only.
ClampCurveT_NoLower(pars, t) ==
    IF RLt(Val(pars[Len(pars)]), t) THEN Val(pars[Len(pars)]) ELSE t

\* An evaluator that clamps at the upper end first and at the lower end last.
ClampCurveT_UpperFirst(pars, t) ==
    LET tmin == Val(pars[1])
        tmax == Val(pars[Len(pars)])
        t1   == IF RLt(tmax, t) THEN tmax ELSE t
    IN  IF RLt(t1, tmin) THEN tmin ELSE t1

\* if t < tmin: t = tmin; if t > tmax: t = tmax  (in this order)
ClampCurveT(pars, t) ==
    LET tmin == Val(pars[1])
        tmax == Val(pars[Len(pars)])
        t1   == IF RLt(t, tmin) THEN tmin ELSE t
    IN  IF RLt(tmax, t1) THEN tmax ELSE t1

\* The first i in range(len(segs)) with t <= pars[i+1]; none: the last segment.
FindSegment(curve, t) ==
    LET hits == {i \in 0..(Len(curve.segments) - 1) : RLe(t, Val(At(curve.pars, i + 1)))}
    IN  IF hits = {} THEN Len(curve.segments) - 1
        ELSE CHOOSE i \in hits : \A h \in hits : i <= h

eval_curve_at_t(curve, t) ==
    LET tc  == ClampCurveT(curve.pars, t)
        seg == At(curve.segments, FindSegment(curve, tc))
        u   == RDiv(RSub(tc, seg.t0), RSub(seg.t1, seg.t0))
    IN  SegPoint(seg, u)

Max(a, b) == IF a >= b THEN a ELSE b

\* range(m + (1 if include_knots or idx == 0 else 0)) without the j skipped by
\* `if j == 0 and idx > 0 and not include_knots: continue`; idx is 0-based.
SampleIndices(idx, m, include_knots) ==
    {j \in 0..(m + (IF include_knots \/ idx = 0 THEN 1 ELSE 0) - 1) :
        ~(j = 0 /\ idx > 0 /\ ~include_knots)}

\* The j of one segment in increasing order, as the inner loop visits them.
RECURSIVE SegSamples(_, _, _, _, _)
SegSamples(seg, idx, m, include_knots, j) ==
    IF j > m THEN <<>>
    ELSE (IF j \in SampleIndices(idx, m, include_knots)
            THEN <<SegPoint(seg, Rat(j, m))>> ELSE <<>>)
         \o SegSamples(seg, idx, m, include_knots, j + 1)

RECURSIVE SampleLoop(_, _, _, _)
SampleLoop(segs, idx, m, include_knots) ==
    IF idx >= Len(segs) THEN <<>>
    ELSE SegSamples(At(segs, idx), idx, m, include_knots, 0)
         \o SampleLoop(segs, idx + 1, m, include_knots)

sample_curve(curve, samples_per_segment, include_knots) ==
    SampleLoop(curve.segments, 0, Max(2, samples_per_segment), include_knots)

----------------------------------------------------------------------------
(* Decoder inputs.  A CURVE or SURF token list is laid out as its decoder  *)
(* expects; the malformed inputs are the same lists cut short, or with one *)
(* token replaced: any token by a string, and a count, breakpoint or order *)
(* by 0, -1 or 3/2.                                                        *)

\* Breakpoint sequences for n intervals: increasing, decreasing, increasing
\* in steps of 2 from 1, increasing with the pair (i, i+1) equal, and, for
\* n >= 2, increasing with the last two exchanged, and alternating 0, 1, 0.
BreakpointSeqs(n) ==
    {[q \in 1..(n + 1) |-> q - 1], [q \in 1..(n + 1) |-> n + 1 - q],
     [q \in 1..(n + 1) |-> 2 * q - 1]}
    \cup {[q \in 1..(n + 1) |-> IF q <= i THEN q - 1 ELSE q - 2] : i \in 1..n}
    \cup (IF n < 2 THEN {}
          ELSE {[q \in 1..(n + 1) |-> IF q = n THEN n ELSE IF q = n + 1 THEN n - 1 ELSE q - 1],
                [q \in 1..(n + 1) |-> (q - 1) % 2]})

NumSeq(vals) == [q \in 1..Len(vals) |-> Num(vals[q], 1)]

CoefSeeds == {0, 1}
BadNumbers == {Num(0, 1), Num(-1, 1), Num(3, 2)}
BadString == Str(<<"S", "R", "1">>)

\* `head` tokens (counts and breakpoints), then blocks whose order tokens are
\* at the positions `orders`.
Defected(base, head, orders) ==
    {SubSeq(base, 1, p) : p \in 0..(Len(base) - 1)}
    \cup {[base EXCEPT ![p] = BadString] : p \in 1..Len(base)}
    \cup {[base EXCEPT ![p] = tok] : p \in (1..head) \cup orders, tok \in BadNumbers}

OrderOf(k0, k) == 1 + ((k0 + k) % MaxOrder)
Coef(seed, k, a, j) == ((seed + 2 * k + a + j) % 4) - 1

CurveBlock(seed, k0, k) ==
    LET K == OrderOf(k0, k)
    IN  <<Num(K, 1)>> \o [q \in 1..(3 * K) |-> Num(Coef(seed, k, (q - 1) \div K, (q - 1) % K), 1)]

RECURSIVE CurveBlocks(_, _, _, _)
CurveBlocks(seed, k0, n, k) ==
    IF k >= n THEN <<>> ELSE CurveBlock(seed, k0, k) \o CurveBlocks(seed, k0, n, k + 1)

CurveTokens(n, bps, k0, seed) ==
    <<Num(n, 1)>> \o NumSeq(bps) \o CurveBlocks(seed, k0, n, 0)

\* Positions (1-based) of the order tokens of CurveTokens(n, bps, k0, seed).
CurveOrderPositions(n, k0) ==
    {n + 3 + Len(CurveBlocks(0, k0, k, 0)) : k \in 0..(n - 1)}

CurveBases(seeds) ==
    UNION { {CurveTokens(n, bps, k0, seed) :
                bps \in BreakpointSeqs(n), k0 \in 0..(MaxOrder - 1), seed \in seeds} :
            n \in 1..MaxSeg }

CurveInputs ==
    CurveBases(CoefSeeds)
    \cup UNION { UNION {Defected(CurveTokens(n, bps, k0, 0), n + 2, CurveOrderPositions(n, k0)) :
                          bps \in BreakpointSeqs(n), k0 \in 0..(MaxOrder - 1)} :
                 n \in 1..MaxSeg }

TVals == {Rat(-1, 1), Rat(0, 1), Rat(1, 2), Rat(1, 1), Rat(3, 2), Rat(2, 1), Rat(3, 1)}

----------------------------------------------------------------------------
(* The CURVE state machine: decode the params, then evaluate or sample. *)

NoOp == [op |-> "none", t |-> RInt(0), sps |-> 0, knots |-> FALSE, pts |-> <<>>]

CIdle ==
    /\ c_pc = "idle" /\ c_params = <<>> /\ c_curve = NoCurve /\ c_err = "" /\ c_op = NoOp

CInit ==
    /\ c_pc = "input"
    /\ c_params \in CurveInputs
    /\ c_curve = NoCurve
    /\ c_err = ""
    /\ c_op = NoOp

DecodeCurve ==
    /\ c_pc = "input"
    /\ LET r == _decode_curve_params(c_params)
       IN  /\ c_pc' = IF r.ok THEN "decoded" ELSE "failed"
           /\ c_curve' = r.curve
           /\ c_err' = r.err
    /\ UNCHANGED <<c_params, c_op>>
    /\ UNCHANGED <<svars, ivars, rvars, xvars>>

EvalCurve ==
    /\ c_pc = "decoded"
    /\ \E t \in TVals :
         c_op' = [op |-> "eval", t |-> t, sps |-> 0, knots |-> FALSE,
                  pts |-> <<eval_curve_at_t(c_curve, t)>>]
    /\ c_pc' = "done"
    /\ UNCHANGED <<c_params, c_curve, c_err>>
    /\ UNCHANGED <<svars, ivars, rvars, xvars>>

SampleCurve ==
    /\ c_pc = "decoded"
    /\ \E sps \in 1..MaxSamples, knots \in BOOLEAN :
         c_op' = [op |-> "sample", t |-> RInt(0), sps |-> sps, knots |-> knots,
                  pts |-> sample_curve(c_curve, sps, knots)]
    /\ c_pc' = "done"
    /\ UNCHANGED <<c_params, c_curve, c_err>>
    /\ UNCHANGED <<svars, ivars, rvars, xvars>>


----------------------------------------------------------------------------
(* surf_eval.py: _decode_surf_params *)

NoSurf == [nu |-> 0, nv |-> 0, u_pars |-> <<>>, v_pars |-> <<>>, patches |-> <<>>]
SurfRaise(msg) == [ok |-> FALSE, err |-> msg, surf |-> NoSurf]

\* The exception patch_data[i] raises when i is past the end of the list.
IndexError == "IndexError: list index out of range"

\* A decoder that only rejects negative patch counts.
SurfCountInvalid_Strict(nu, nv) == nu < 0 \/ nv < 0

\* if nu <= 0 or nv <= 0: raise
SurfCountInvalid(nu, nv) == nu <= 0 \/ nv <= 0

\* A decoder that only rejects negative patch orders.
SurfOrderInvalid_Strict(Ku, Kv) == Ku < 0 \/ Kv < 0

\* if Ku <= 0 or Kv <= 0: raise
SurfOrderInvalid(Ku, Kv) == Ku <= 0 \/ Kv <= 0

\* A decoder that checks the s-interval only.
SurfZeroLength_UOnly(u0, u1, v0, v1) == u1 = u0

\* if u1 == u0 or v1 == v0: raise
SurfZeroLength(u0, u1, v0, v1) == u1 = u0 \/ v1 = v0

\* Ku rows of Kv tokens read from patch_data at cursor i, row after row.
Matrix(patch_data, i, Ku, Kv) ==
    [r \in 1..Ku |-> [c \in 1..Kv |-> At(patch_data, i + (r - 1) * Kv + (c - 1))]]

MatrixNumeric(m) == \A r \in 1..Len(m) : AllNumeric(m[r])

\* The body of the nested loops `for u_idx in range(nu): for v_idx in
\* range(nv)`, from iteration p = u_idx * nv + v_idx on, with the cursor i into
\* patch_data and the patches appended so far.
RECURSIVE SurfPatchLoop(_, _, _, _, _, _, _, _)
SurfPatchLoop(patch_data, u_pars, v_pars, nu, nv, p, i, patches) ==
    IF p >= nu * nv
      THEN [ok |-> TRUE, err |-> "",
            surf |-> [nu |-> nu, nv |-> nv, u_pars |-> u_pars, v_pars |-> v_pars,
                      patches |-> patches]]
    ELSE IF i >= Len(patch_data) THEN SurfRaise("SURF missing patch block")
    ELSE IF ~IsNumeric(At(patch_data, i)) THEN SurfRaise(BadLiteral)
    ELSE IF i + 1 >= Len(patch_data) THEN SurfRaise(IndexError)
    ELSE IF ~IsNumeric(At(patch_data, i + 1)) THEN SurfRaise(BadLiteral)
    ELSE
      LET u_idx == p \div nv
          v_idx == p % nv
          Ku == Trunc(Val(At(patch_data, i)))
          Kv == Trunc(Val(At(patch_data, i + 1)))
          i2 == i + 2
          n1 == Ku * Kv
      IN  IF SurfOrderInvalid(Ku, Kv) THEN SurfRaise("SURF patch orders must be positive")
          ELSE IF i2 + 3 * Ku * Kv > Len(patch_data)
            THEN SurfRaise("SURF patch coefficients incomplete")
          ELSE
            LET coeffs_x == Matrix(patch_data, i2, Ku, Kv)
                coeffs_y == Matrix(patch_data, i2 + n1, Ku, Kv)
                coeffs_z == Matrix(patch_data, i2 + 2 * n1, Ku, Kv)
            IN  IF ~(MatrixNumeric(coeffs_x) /\ MatrixNumeric(coeffs_y) /\ MatrixNumeric(coeffs_z))
                  THEN SurfRaise("SURF coefficients must be numeric")
                ELSE IF \/ ~IsNumeric(At(u_pars, u_idx)) \/ ~IsNumeric(At(u_pars, u_idx + 1))
                        \/ ~IsNumeric(At(v_pars, v_idx)) \/ ~IsNumeric(At(v_pars, v_idx + 1))
                  THEN SurfRaise(BadLiteral)
                ELSE
                  LET u0 == Val(At(u_pars, u_idx))
                      u1 == Val(At(u_pars, u_idx + 1))
                      v0 == Val(At(v_pars, v_idx))
                      v1 == Val(At(v_pars, v_idx + 1))
                  IN  IF SurfZeroLength(u0, u1, v0, v1)
                        THEN SurfRaise("SURF parameter intervals have zero length")
                      ELSE SurfPatchLoop(patch_data, u_pars, v_pars, nu, nv, p + 1,
                             i2 + 3 * n1,
                             Append(patches,
                               [u_idx |-> u_idx, v_idx |-> v_idx,
                                order_u |-> Ku, order_v |-> Kv,
                                coeffs_x |-> coeffs_x, coeffs_y |-> coeffs_y,
                                coeffs_z |-> coeffs_z,
                                u0 |-> u0, u1 |-> u1, v0 |-> v0, v1 |-> v1]))

_decode_surf_params(params) ==
    IF Len(params) < 2 THEN SurfRaise("SURF has insufficient parameters")
    ELSE IF ~IsNumeric(params[1]) \/ ~IsNumeric(params[2]) THEN SurfRaise(BadLiteral)
    ELSE
      LET nu == Trunc(Val(params[1]))
          nv == Trunc(Val(params[2]))
          need == 2 + (nu + 1) + (nv + 1)
      IN  IF SurfCountInvalid(nu, nv) THEN SurfRaise("SURF patch counts must be positive")
          ELSE IF Len(params) < need THEN SurfRaise("SURF missing parameter vectors")
          ELSE SurfPatchLoop(Slice(params, need, Len(params)),
                             Slice(params, 2, 2 + (nu + 1)),
                             Slice(params, 2 + (nu + 1), need),
                             nu, nv, 0, 0, <<>>)

----------------------------------------------------------------------------
(* surf_eval.py: _eval_poly2d, eval_surf_at_uv *)

\* up = [1, u, u^2, ...] with n entries (n >= 1 entries even for n = 0 rows).
RECURSIVE Powers(_, _)
Powers(u, n) ==
    IF n <= 1 THEN <<RInt(1)>>
    ELSE LET pw == Powers(u, n - 1) IN Append(pw, RMul(pw[Len(pw)], u))

\* s += ci[j] * ui * vp[j], rows i in order and, within a row, columns j in order.
RECURSIVE Poly2dLoop(_, _, _, _, _)
Poly2dLoop(coeffs, up, vp, q, s) ==
    LET Kv == Len(coeffs[1])
    IN  IF q >= Len(coeffs) * Kv THEN s
        ELSE LET i == q \div Kv
                 j == q % Kv
             IN  Poly2dLoop(coeffs, up, vp, q + 1,
                   RAdd(s, RMul(RMul(Val(At(At(coeffs, i), j)), At(up, i)), At(vp, j))))

_eval_poly2d(coeffs, u, v) ==
    IF Len(coeffs) = 0 THEN RInt(0)
    ELSE Poly2dLoop(coeffs, Powers(u, Len(coeffs)), Powers(v, Len(coeffs[1])), 0, RInt(0))

PatchPoint(patch, uu, vv) ==
    <<_eval_poly2d(patch.coeffs_x, uu, vv), _eval_poly2d(patch.coeffs_y, uu, vv),
      _eval_poly2d(patch.coeffs_z, uu, vv)>>

\* An evaluator that clamps at the upper end first and at the lower end last.
ClampSurf_UpperFirst(pars, x) ==
    LET lo == Val(pars[1])
        hi == Val(pars[Len(pars)])
        x1 == IF RLt(hi, x) THEN hi ELSE x
    IN  IF RLt(x1, lo) THEN lo ELSE x1

\* if x < lo: x = lo; if x > hi: x = hi, with lo = pars[0] and hi = pars[-1]
ClampSurf(pars, x) ==
    LET lo == Val(pars[1])
        hi == Val(pars[Len(pars)])
        x1 == IF RLt(x, lo) THEN lo ELSE x
    IN  IF RLt(hi, x1) THEN hi ELSE x1

\* The first i in range(len(pars) - 1) with x <= pars[i+1]; none: len(pars) - 2.
FindInterval(pars, x) ==
    LET hits == {i \in 0..(Len(pars) - 2) : RLe(x, Val(At(pars, i + 1)))}
    IN  IF hits = {} THEN Len(pars) - 2
        ELSE CHOOSE i \in hits : \A h \in hits : i <= h

\* The first patch with the given indices; none: the last patch.
FindPatch(patches, ui, vi) ==
    LET hits == {q \in 1..Len(patches) : patches[q].u_idx = ui /\ patches[q].v_idx = vi}
    IN  IF hits = {} THEN patches[Len(patches)]
        ELSE patches[CHOOSE q \in hits : \A h \in hits : q <= h]

\* An evaluator that divides the global s by the interval length without
\* subtracting the patch's lower end.
ResolveUV_NoOffset(surf, u, v) ==
    LET uc == ClampSurf(surf.u_pars, u)
        vc == ClampSurf(surf.v_pars, v)
        patch == FindPatch(surf.patches, FindInterval(surf.u_pars, uc),
                           FindInterval(surf.v_pars, vc))
    IN  [patch |-> patch,
         uu |-> RDiv(uc, RSub(patch.u1, patch.u0)),
         vv |-> RDiv(RSub(vc, patch.v0), RSub(patch.v1, patch.v0))]

\* The local fractions (uu, vv) and the patch eval_surf_at_uv evaluates.
ResolveUV(surf, u, v) ==
    LET uc == ClampSurf(surf.u_pars, u)
        vc == ClampSurf(surf.v_pars, v)
        patch == FindPatch(surf.patches, FindInterval(surf.u_pars, uc),
                           FindInterval(surf.v_pars, vc))
    IN  [patch |-> patch,
         uu |-> RDiv(RSub(uc, patch.u0), RSub(patch.u1, patch.u0)),
         vv |-> RDiv(RSub(vc, patch.v0), RSub(patch.v1, patch.v0))]

eval_surf_at_uv(surf, u, v) ==
    LET r == ResolveUV(surf, u, v) IN PatchPoint(r.patch, r.uu, r.vv)

----------------------------------------------------------------------------
(* SURF inputs: nps, npt, the s- and t-breakpoints, then nps*npt blocks of *)
(* Ku, Kv and 3*Ku*Kv coefficients.                                        *)

\* Order 2x2 coefficients of the map (x, y, z) = (s, t, 0) over [s0,s1]x[t0,t1].
IdentityBlock(s0, s1, t0, t1) ==
    <<Num(2, 1), Num(2, 1)>>
    \o NumSeq(<<s0, 0, s1 - s0, 0>>) \o NumSeq(<<t0, t1 - t0, 0, 0>>) \o NumSeq(<<0, 0, 0, 0>>)

SeededBlock(k0, p) ==
    LET Ku == OrderOf(k0, p)
        Kv == OrderOf(k0 + 1, p)
        n1 == Ku * Kv
    IN  <<Num(Ku, 1), Num(Kv, 1)>>
        \o [q \in 1..(3 * n1) |-> Num(Coef(k0, p, (q - 1) \div n1, (q - 1) % n1), 1)]

\* The blocks of patches p, p+1, ..., last-1.
RECURSIVE SurfBlocks(_, _, _, _, _, _, _)
SurfBlocks(mode, k0, npt, sbp, tbp, p, last) ==
    IF p >= last THEN <<>>
    ELSE (IF mode = "identity"
            THEN IdentityBlock(sbp[(p \div npt) + 1], sbp[(p \div npt) + 2],
                               tbp[(p % npt) + 1], tbp[(p % npt) + 2])
            ELSE SeededBlock(k0, p))
         \o SurfBlocks(mode, k0, npt, sbp, tbp, p + 1, last)

SurfTokens(mode, k0, sbp, tbp) ==
    LET nps == Len(sbp) - 1
        npt == Len(tbp) - 1
    IN  <<Num(nps, 1), Num(npt, 1)>> \o NumSeq(sbp) \o NumSeq(tbp)
        \o SurfBlocks(mode, k0, npt, sbp, tbp, 0, nps * npt)

\* Positions (1-based) of the order tokens of SurfTokens("seeded", k0, sbp, tbp).
SurfOrderPositions(k0, sbp, tbp) ==
    LET head == 2 + Len(sbp) + Len(tbp)
        starts == {head + Len(SurfBlocks("seeded", k0, Len(tbp) - 1, sbp, tbp, 0, p)) :
                     p \in 0..((Len(sbp) - 1) * (Len(tbp) - 1) - 1)}
    IN  {b + 1 : b \in starts} \cup {b + 2 : b \in starts}

SurfShapes == (1..MaxPatch) \X (1..MaxPatch)

SurfBasesOf(mode, k0s) ==
    UNION { {SurfTokens(mode, k0, sbp, tbp) :
                sbp \in BreakpointSeqs(sh[1]), tbp \in BreakpointSeqs(sh[2]), k0 \in k0s} :
            sh \in SurfShapes }

\* A flag token that is not a valid order, put between the breakpoints and
\* the first patch block of the identity surfaces.
PaddingToken == Num(0, 1)

PaddedSurfs ==
    UNION { {SubSeq(SurfTokens("identity", 0, sbp, tbp), 1, 2 + Len(sbp) + Len(tbp))
               \o <<PaddingToken>>
               \o SubSeq(SurfTokens("identity", 0, sbp, tbp), 3 + Len(sbp) + Len(tbp),
                         Len(SurfTokens("identity", 0, sbp, tbp))) :
                sbp \in BreakpointSeqs(sh[1]), tbp \in BreakpointSeqs(sh[2])} :
            sh \in SurfShapes }

\* The defects are applied to the seeded surfaces of at most two patches.
SurfInputs ==
    SurfBasesOf("identity", {0})
    \cup PaddedSurfs
    \cup SurfBasesOf("seeded", 0..(MaxOrder - 1))
    \cup UNION { UNION {Defected(SurfTokens("seeded", 0, sbp, tbp), 2 + Len(sbp) + Len(tbp),
                                 SurfOrderPositions(0, sbp, tbp)) :
                          sbp \in BreakpointSeqs(sh[1]), tbp \in BreakpointSeqs(sh[2])} :
                 sh \in {x \in SurfShapes : x[1] * x[2] <= 2} }

SUVals == {Rat(-1, 1), Rat(0, 1), Rat(1, 1), Rat(3, 2), Rat(2, 1), Rat(3, 1), Rat(6, 1)}
SVVals == {Rat(-1, 1), Rat(0, 1), Rat(1, 2), Rat(1, 1), Rat(2, 1), Rat(4, 1)}

----------------------------------------------------------------------------
(* The SURF state machine: decode the params, then evaluate. *)

NoSurfOp == [op |-> "none", u |-> RInt(0), v |-> RInt(0), pts |-> <<>>]

SInit ==
    /\ s_pc = "input"
    /\ s_params \in SurfInputs
    /\ s_surf = NoSurf
    /\ s_err = ""
    /\ s_op = NoSurfOp

DecodeSurf ==
    /\ s_pc = "input"
    /\ LET r == _decode_surf_params(s_params)
       IN  /\ s_pc' = IF r.ok THEN "decoded" ELSE "failed"
           /\ s_surf' = r.surf
           /\ s_err' = r.err
    /\ UNCHANGED <<s_params, s_op>>
    /\ UNCHANGED <<cvars, ivars, rvars, xvars>>

EvalSurf ==
    /\ s_pc = "decoded"
    /\ \E u \in SUVals, v \in SVVals :
         s_op' = [op |-> "eval", u |-> u, v |-> v,
                  pts |-> <<eval_surf_at_uv(s_surf, u, v)>>]
    /\ s_pc' = "done"
    /\ UNCHANGED <<s_params, s_surf, s_err>>
    /\ UNCHANGED <<cvars, ivars, rvars, xvars>>

\* One polyline of sample_surf: `line.append((x, y, z))` for k in range(m + 1).
\* along_u: the line sweeps u at the fixed v = fixed (a v-iso line);
\* otherwise it sweeps v at the fixed u = fixed.
IsoLine(p, m, fixed, along_u) ==
    [k \in 1..(m + 1) |->
        IF along_u THEN PatchPoint(p, Rat(k - 1, m), fixed)
                   ELSE PatchPoint(p, fixed, Rat(k - 1, m))]

\* The lines of one direction of one patch: `for j in range(mv + 1)` (or i in
\* range(mu + 1)) without the index 0 skipped on a patch of index idx > 0
\* when include_knots is false.
RECURSIVE IsoLines(_, _, _, _, _, _, _)
IsoLines(p, j, steps, m, idx, include_knots, along_u) ==
    IF j > steps THEN <<>>
    ELSE (IF j = 0 /\ idx > 0 /\ ~include_knots
            THEN <<>>
            ELSE <<IsoLine(p, m, Rat(j, steps), along_u)>>)
         \o IsoLines(p, j + 1, steps, m, idx, include_knots, along_u)

\* `for p in surf['patches']`, from patch q on; acc = <<u_lines, v_lines>>.
RECURSIVE SamplePatchLoop(_, _, _, _, _, _)
SamplePatchLoop(patches, q, mu, mv, include_knots, acc) ==
    IF q > Len(patches) THEN acc
    ELSE SamplePatchLoop(patches, q + 1, mu, mv, include_knots,
           <<acc[1] \o IsoLines(patches[q], 0, mv, mu, patches[q].v_idx, include_knots, TRUE),
             acc[2] \o IsoLines(patches[q], 0, mu, mv, patches[q].u_idx, include_knots, FALSE)>>)

\* sample_surf(surf, samples_u_per_patch, samples_v_per_patch, include_knots):
\* the pair (u_lines, v_lines).
sample_surf(surf, samples_u_per_patch, samples_v_per_patch, include_knots) ==
    SamplePatchLoop(surf.patches, 1, Max(2, samples_u_per_patch),
                    Max(2, samples_v_per_patch), include_knots, <<<<>>, <<>>>>)

\* The parameter names of sample_surf, and the keywords of the call in
\* plot_entity: se.sample_surf(surf, nu=12, nv=12).
SampleSurfParams == {"surf", "samples_u_per_patch", "samples_v_per_patch", "include_knots"}
PlotKeywords == {"nu", "nv"}

Densities == 1..MaxSamples

\* The surfaces sampled: every shape and breakpoint sequence, patches of the
\* identity and of seeded coefficients.
SampleInputs == SurfBasesOf("identity", {0}) \cup SurfBasesOf("seeded", {1})

\* se.sample_surf(surf, nu, nv) or se.sample_surf(surf, nu, nv, include_knots)
\* on a decoded surface.
SampleSurf ==
    /\ s_pc = "decoded"
    /\ \E nu \in Densities, nv \in Densities, include_knots \in BOOLEAN :
         s_op' = [op |-> "sample", u |-> RInt(nu), v |-> RInt(nv),
                  pts |-> sample_surf(s_surf, nu, nv, include_knots)]
    /\ s_pc' = "done"
    /\ UNCHANGED <<s_params, s_surf, s_err>>
    /\ UNCHANGED <<cvars, ivars, rvars, xvars>>

\* plot_entity on a SURF: the call binds its keywords to the parameters of
\* sample_surf; a keyword that is no parameter raises TypeError before the
\* body runs.
PlotEntitySurf ==
    /\ s_pc = "decoded"
    /\ IF PlotKeywords \subseteq SampleSurfParams
       THEN /\ s_op' = [op |-> "sample", u |-> RInt(12), v |-> RInt(12),
                        pts |-> sample_surf(s_surf, 12, 12, TRUE)]
            /\ s_pc' = "done"
            /\ s_err' = s_err
       ELSE /\ s_pc' = "failed"
            /\ s_err' = "TypeError"
            /\ s_op' = [op |-> "plot", u |-> RInt(12), v |-> RInt(12), pts |-> <<>>]
    /\ UNCHANGED <<s_params, s_surf>>
    /\ UNCHANGED <<cvars, ivars, rvars, xvars>>

----------------------------------------------------------------------------
(* reader.py.  A line, a statement text and a string token are sequences   *)
(* of one-character strings.                                               *)

Space == {" ", "\t"}
UpperL == {"A", "B", "C", "D", "E", "F", "G", "H", "I", "J", "K", "L", "M",
           "N", "O", "P", "Q", "R", "S", "T", "U", "V", "W", "X", "Y", "Z"}
Digit == {"0", "1", "2", "3", "4", "5", "6", "7", "8", "9"}
LowerSeq == <<"a", "b", "c", "d", "e", "f", "g", "h", "i", "j", "k", "l", "m",
              "n", "o", "p", "q", "r", "s", "t", "u", "v", "w", "x", "y", "z">>
UpperSeq == <<"A", "B", "C", "D", "E", "F", "G", "H", "I", "J", "K", "L", "M",
              "N", "O", "P", "Q", "R", "S", "T", "U", "V", "W", "X", "Y", "Z">>

\* str.upper()
UpperChar(c) ==
    IF \E q \in 1..Len(LowerSeq) : LowerSeq[q] = c
      THEN UpperSeq[CHOOSE q \in 1..Len(LowerSeq) : LowerSeq[q] = c]
      ELSE c
Upper(str) == [q \in 1..Len(str) |-> UpperChar(str[q])]

SetMin(S) == CHOOSE x \in S : \A y \in S : x <= y
SetMax(S) == CHOOSE x \in S : \A y \in S : x >= y

\* The first position j >= i of str whose character is not in cls
\* (Len(str) + 1 when there is none): where a greedy cls* started at i ends.
SpanEnd(str, i, cls) ==
    LET stops == {j \in i..Len(str) : str[j] \notin cls}
    IN  IF stops = {} THEN Max(i, Len(str) + 1) ELSE SetMin(stops)

\* str.lstrip() and str.strip()
LStrip(str) == SubSeq(str, SpanEnd(str, 1, Space), Len(str))
Strip(str) ==
    LET keep == {j \in 1..Len(str) : str[j] \notin Space}
    IN  IF keep = {} THEN <<>> ELSE SubSeq(str, SetMin(keep), SetMax(keep))

\* A reader that takes $$ as a comment marker in columns 1 and 2 only.
_is_comment_NoStrip(str) == Len(str) >= 2 /\ str[1] = "$" /\ str[2] = "$"

\* s.lstrip().startswith('$$')
_is_comment(str) ==
    LET t == LStrip(str) IN Len(t) >= 2 /\ t[1] = "$" /\ t[2] = "$"

DataCols == 72

\* raw[:72]
DataOf(raw) == SubSeq(raw, 1, IF Len(raw) < DataCols THEN Len(raw) ELSE DataCols)

Least(a, b) == IF a < b THEN a ELSE b

NoMatch == [ok |-> FALSE, name |-> <<>>, word |-> <<>>, rest |-> <<>>]

\* A match of ^\s*[A-Z][A-Z0-9]{0,7}\s*=\s*[A-Z]+ goes through the name at
\* [n0, n1), the "=" at eq and the command word at [w0, w1); the operators
\* below follow it position by position.  The result holds ok (it matched)
\* and the groups; sl is where the text after the word and blanks starts.
ScanTail(str, n0, n1, w0, w1, sl) ==
    [ok |-> TRUE, name |-> SubSeq(str, n0, n1 - 1), word |-> SubSeq(str, w0, w1 - 1), sl |-> sl]

ScanWord(str, n0, n1, w0, w1) == ScanTail(str, n0, n1, w0, w1, SpanEnd(str, w1, Space))

ScanCommand(str, n0, n1, w0) ==
    IF w0 <= Len(str) /\ str[w0] \in UpperL
      THEN ScanWord(str, n0, n1, w0, SpanEnd(str, w0, UpperL))
      ELSE [ok |-> FALSE, name |-> <<>>, word |-> <<>>, sl |-> 0]

ScanEquals(str, n0, n1, eq) ==
    IF eq <= Len(str) /\ str[eq] = "="
      THEN ScanCommand(str, n0, n1, SpanEnd(str, eq + 1, Space))
      ELSE [ok |-> FALSE, name |-> <<>>, word |-> <<>>, sl |-> 0]

ScanName(str, n0) ==
    IF n0 <= Len(str) /\ str[n0] \in UpperL
      THEN ScanEquals(str, n0, Least(SpanEnd(str, n0 + 1, UpperL \cup Digit), n0 + 8),
                      SpanEnd(str, Least(SpanEnd(str, n0 + 1, UpperL \cup Digit), n0 + 8), Space))
      ELSE [ok |-> FALSE, name |-> <<>>, word |-> <<>>, sl |-> 0]

StartScan(str) == ScanName(str, SpanEnd(str, 1, Space))

\* _stmt_start.match(data)
_stmt_start(str) == StartScan(str).ok

\* ^\s*(NAME)\s*=\s*([A-Z]+)\s*(?:/\s*(.*))?\s*$ once the start has matched:
\* the text ends after the word, or a "/" follows and group(3) is what
\* comes after the blanks behind it.  rest is group(3), the empty string
\* when the group took no part.
ParseTail(text, sc) ==
    IF ~sc.ok THEN NoMatch
    ELSE IF sc.sl > Len(text)
      THEN [ok |-> TRUE, name |-> sc.name, word |-> sc.word, rest |-> <<>>]
    ELSE IF text[sc.sl] = "/"
      THEN [ok |-> TRUE, name |-> sc.name, word |-> sc.word,
            rest |-> SubSeq(text, SpanEnd(text, sc.sl + 1, Space), Len(text))]
    ELSE NoMatch

\* _stmt_parse.match(text)
_stmt_parse(text) == ParseTail(text, StartScan(text))

----------------------------------------------------------------------------
(* reader.py: _to_number, _split_params *)

DigitVal(c) == CHOOSE v \in 0..9 : <<"0", "1", "2", "3", "4", "5", "6", "7", "8", "9">>[v + 1] = c

\* The value of a run of decimal digits (0 for the empty run).
RECURSIVE DigitsVal(_)
DigitsVal(ds) ==
    IF ds = <<>> THEN 0
    ELSE 10 * DigitsVal(SubSeq(ds, 1, Len(ds) - 1)) + DigitVal(ds[Len(ds)])

RECURSIVE Pow10(_)
Pow10(e) == IF e <= 0 THEN 1 ELSE 10 * Pow10(e - 1)

SignLen(t) == IF Len(t) >= 1 /\ t[1] \in {"+", "-"} THEN 1 ELSE 0
SignOf(t) == IF Len(t) >= 1 /\ t[1] = "-" THEN -1 ELSE 1

\* re.match(r'^[\+\-]?\d+$', t)
IntMatch(t) ==
    /\ Len(t) > SignLen(t)
    /\ \A q \in (SignLen(t) + 1)..Len(t) : t[q] \in Digit

IntVal(t) == SignOf(t) * DigitsVal(SubSeq(t, SignLen(t) + 1, Len(t)))

\* float(t) for the decimal spellings [sign] digits [. digits] [(e|E) [sign] digits]
\* and [sign] . digits [exponent]; ok is FALSE where float() raises.  The
\* spellings inf, infinity and nan and digit-group underscores are not modelled.
\* mant: the digits before and after the point, nfrac: how many came after
\* it, ex: the written exponent, stop: where the spelling ends.
FloatValue(t, mant, nfrac, ex, stop) ==
    IF Len(mant) = 0 \/ stop # Len(t) + 1 THEN [ok |-> FALSE, val |-> RInt(0)]
    ELSE IF ex - nfrac >= 0
      THEN [ok |-> TRUE, val |-> Rat(SignOf(t) * DigitsVal(mant) * Pow10(ex - nfrac), 1)]
    ELSE [ok |-> TRUE, val |-> Rat(SignOf(t) * DigitsVal(mant), Pow10(nfrac - ex))]

FloatExpDigits(t, mant, nfrac, esign, d0, d1) ==
    IF d1 = d0 THEN [ok |-> FALSE, val |-> RInt(0)]
    ELSE FloatValue(t, mant, nfrac, esign * DigitsVal(SubSeq(t, d0, d1 - 1)), d1)

FloatExpSign(t, mant, nfrac, e0) ==
    IF e0 <= Len(t) /\ t[e0] \in {"+", "-"}
      THEN FloatExpDigits(t, mant, nfrac, IF t[e0] = "-" THEN -1 ELSE 1,
                          e0 + 1, SpanEnd(t, e0 + 1, Digit))
      ELSE FloatExpDigits(t, mant, nfrac, 1, e0, SpanEnd(t, e0, Digit))

FloatExp(t, mant, nfrac, f1) ==
    IF f1 <= Len(t) /\ t[f1] \in {"e", "E"}
      THEN FloatExpSign(t, mant, nfrac, f1 + 1)
      ELSE FloatValue(t, mant, nfrac, 0, f1)

FloatFrac(t, int, f0, f1) == FloatExp(t, int \o SubSeq(t, f0, f1 - 1), f1 - f0, f1)

FloatPoint(t, a, i1) ==
    IF i1 <= Len(t) /\ t[i1] = "."
      THEN FloatFrac(t, SubSeq(t, a, i1 - 1), i1 + 1, SpanEnd(t, i1 + 1, Digit))
      ELSE FloatExp(t, SubSeq(t, a, i1 - 1), 0, i1)

FloatParse(t) == FloatPoint(t, SignLen(t) + 1, SpanEnd(t, SignLen(t) + 1, Digit))

FloatOrString(t, fp) == IF fp.ok THEN NumR(fp.val) ELSE Str(t)

\* _to_number of a stripped, non-empty field: int, else float, else the string.
_to_number(tok) ==
    IF IntMatch(Strip(tok)) THEN Num(IntVal(Strip(tok)), 1)
    ELSE FloatOrString(Strip(tok), FloatParse(Strip(tok)))

\* re.match(r'^[A-Z]{2}\d+$', p)
RefMatch(fld) ==
    /\ Len(fld) >= 3 /\ fld[1] \in UpperL /\ fld[2] \in UpperL
    /\ \A q \in 3..Len(fld) : fld[q] \in Digit

\* s.split(','): the fields between the commas, in order.
FirstComma(str) ==
    IF \E q \in 1..Len(str) : str[q] = ","
      THEN SetMin({q \in 1..Len(str) : str[q] = ","}) ELSE 0

RECURSIVE SplitAt(_, _)
SplitAt(str, c) ==
    IF c = 0 THEN <<str>>
    ELSE <<SubSeq(str, 1, c - 1)>>
           \o SplitAt(SubSeq(str, c + 1, Len(str)), FirstComma(SubSeq(str, c + 1, Len(str))))

SplitComma(str) == SplitAt(str, FirstComma(str))

ParamToken(fld) ==
    IF fld = <<>> THEN <<>>
    ELSE IF RefMatch(fld) THEN <<Str(fld)>>
    ELSE <<_to_number(fld)>>

RECURSIVE ParamTokens(_)
ParamTokens(parts) ==
    IF parts = <<>> THEN <<>>
    ELSE ParamToken(Strip(parts[1])) \o ParamTokens(Tail(parts))

_split_params(rest) ==
    IF Strip(rest) = <<>> THEN <<>> ELSE ParamTokens(SplitComma(rest))

----------------------------------------------------------------------------
(* reader.py: _coalesce_statements driven by read_vdafs.  The generator    *)
(* and the loop that consumes it run in turn: one step takes one record,   *)
(* and when that record makes the generator yield a statement the loop     *)
(* body of read_vdafs handles it before the next record is taken.          *)
(* start_no = 0 stands for None (line numbers start at 1).                 *)

NoHeader == [present |-> FALSE, name |-> <<>>, n_lines |-> 0, lines |-> <<>>,
             lineno_start |-> 0, lineno_end |-> 0]

RECURSIVE Concat(_)
Concat(buf) == IF buf = <<>> THEN <<>> ELSE buf[1] \o Concat(Tail(buf))

HEADER == <<"H", "E", "A", "D", "E", "R">>
END == <<"E", "N", "D">>

\* re.match(r"\s*([\+\-]?\d+)", rest): the leading integer of rest, or n = 0.
LeadingInt(t, d1) == IF d1 > SignLen(t) + 1 THEN IntVal(SubSeq(t, 1, d1 - 1)) ELSE 0

HeaderCount(rest) ==
    LeadingInt(LStrip(rest), SpanEnd(LStrip(rest), SignLen(LStrip(rest)) + 1, Digit))

\* ln_to_text.get(ln, '')
LineText(file, ln) == IF ln \in 1..Len(file) THEN file[ln] ELSE <<>>

HeaderOf(file, name, ln0, n) ==
    [present |-> TRUE, name |-> name, n_lines |-> n,
     lines |-> [q \in 1..Max(0, n) |-> LineText(file, ln0 + q)],
     lineno_start |-> ln0, lineno_end |-> ln0 + n]

\* The body of `for ln0, ln1, text in _coalesce_statements(recs)` for one
\* statement, m being _stmt_parse.match(text); pc = "done" is the `break`
\* on the command END.
\* A reader that gives up at a statement that does not parse.
Unparsed_Abort(st) == [st EXCEPT !.pc = "done"]

\* if not m: continue
Unparsed(st) == st

\* A reader that keeps the entities of the commands it knows and drops the
\* statements of any other command.
HandleMatch_KnownOnly(file, st, ln0, ln1, text, m) ==
    IF ~m.ok THEN Unparsed(st)
    ELSE IF m.word = HEADER
      THEN [st EXCEPT !.header = HeaderOf(file, m.name, ln0, HeaderCount(m.rest))]
    ELSE IF m.word = END THEN [st EXCEPT !.pc = "done"]
    ELSE IF m.word \notin {<<"C", "U", "R", "V", "E">>, <<"S", "U", "R", "F">>,
                           <<"P", "O", "I", "N", "T">>}
      THEN st
    ELSE [st EXCEPT !.entities = Append(@,
             [name |-> m.name, command |-> m.word, params |-> _split_params(m.rest),
              raw |-> text, lineno_start |-> ln0, lineno_end |-> ln1])]

HandleMatch(file, st, ln0, ln1, text, m) ==
    IF ~m.ok THEN Unparsed(st)
    ELSE IF m.word = HEADER
      THEN [st EXCEPT !.header = HeaderOf(file, m.name, ln0, HeaderCount(m.rest))]
    ELSE IF m.word = END THEN [st EXCEPT !.pc = "done"]
    ELSE [st EXCEPT !.entities = Append(@,
             [name |-> m.name, command |-> m.word, params |-> _split_params(m.rest),
              raw |-> text, lineno_start |-> ln0, lineno_end |-> ln1])]

HandleStatement(file, st, ln0, ln1, text) ==
    HandleMatch(file, st, ln0, ln1, text, _stmt_parse(text))

\* flush(end_no) and, when it returns a statement, the handling of it.
FlushAndHandle(file, st, end_no) ==
    IF st.buf = <<>> THEN st
    ELSE HandleStatement(file, [st EXCEPT !.buf = <<>>, !.start_no = 0],
                         st.start_no, end_no, Concat(st.buf))

\* The data columns are compared as they are, blanks included.
IsEndLine_Untrimmed(data) == Upper(data) = END

\* data.strip().upper() == 'END'
IsEndLine(data) == Upper(Strip(data)) = END

\* After the flush st1 at a statement start: the generator goes on with the
\* new statement unless the consuming loop has left.
StartStatement(st1, lineno, data) ==
    IF st1.pc = "done" THEN st1
    ELSE [st1 EXCEPT !.start_no = lineno, !.buf = <<data>>, !.pos = lineno + 1]

\* One iteration of `for lineno, raw in records` on the 72 data columns of
\* the line.
ReadData(file, st, lineno, data) ==
    IF IsEndLine(data)
      THEN [FlushAndHandle(file, st, lineno - 1) EXCEPT !.pc = "done"]
    ELSE IF Strip(data) = <<>> \/ _is_comment(data)
      THEN [st EXCEPT !.pos = lineno + 1]
    ELSE IF _stmt_start(data)
      THEN StartStatement(FlushAndHandle(file, st, lineno - 1), lineno, data)
    ELSE IF st.start_no = 0
      THEN [st EXCEPT !.pos = lineno + 1]
    ELSE [st EXCEPT !.buf = Append(@, data), !.pos = lineno + 1]

ReadRecordStep(file, st) == ReadData(file, st, st.pos, DataOf(file[st.pos]))

\* After the last record: `if buf: flush(records[-1][0])`, then the return.
ReadEndOfFile(file, st) ==
    [FlushAndHandle(file, st, Len(file)) EXCEPT !.pc = "done"]

ReaderStart ==
    [pc |-> "reading", pos |-> 1, buf |-> <<>>, start_no |-> 0,
     header |-> NoHeader, entities |-> <<>>]

\* read_vdafs(path) on a file holding the lines `file`, run to its return.
RECURSIVE ReadFrom(_, _)
ReadFrom(file, st) ==
    IF st.pc = "done" THEN st
    ELSE IF st.pos > Len(file) THEN ReadEndOfFile(file, st)
    ELSE ReadFrom(file, ReadRecordStep(file, st))

read_vdafs(file) == ReadFrom(file, ReaderStart)

----------------------------------------------------------------------------
(* Files: sequences of at most MaxLines lines of the corpus below. *)

Pad(str, n) == str \o [q \in 1..(n - Len(str)) |-> " "]

LineHeader == <<"H", "1", " ", "=", " ", "H", "E", "A", "D", "E", "R", " ", "/", " ", "2">>
LineCurve == <<"X", "Y", "1", " ", "=", " ", "C", "U", "R", "V", "E", " ", "/", " ", "1", ",", " ", "0", ".", "5", ",">>
LineSurf == <<" ", "S", "2", "=", "S", "U", "R", "F", "/", "S", "R", "8", "5", ",">>
LineCont == <<"3", ",", " ", "C", "V", "5", "7">>
LineFreeText == <<"V", "D", "A", "F", "S", " ", "T", "E", "X", "T">>
LineEnd == <<"E", "N", "D", " ", " ">>
LineEndLower == <<" ", " ", "e", "n", "d", " ">>
LineComment == <<"$", "$", " ", "C", "1", " ", "=", " ", "C", "U", "R", "V", "E", " ", "/", " ", "9">>
LineBlank == <<" ", " ">>
LineBad == <<"B", "2", " ", "=", " ", "S", "U", "R", "F", " ", "3">>
LineLong == Pad(<<"P", "1", " ", "=", " ", "P", "O", "I", "N", "T", " ", "/", " ", "7", ",">>, DataCols) \o <<"4", "2">>
LineEndStmt == <<"E", "1", " ", "=", " ", "E", "N", "D">>
\* A command word that is none of the format.
LineOther == <<"Z", "9", " ", "=", " ", "B", "L", "O", "B", " ", "/", " ", "1">>

Corpus == {LineHeader, LineCurve, LineSurf, LineCont, LineFreeText, LineEnd, LineEndLower,
           LineComment, LineBlank, LineBad, LineLong, LineEndStmt, LineOther}

Files == UNION {[1..n -> Corpus] : n \in 0..MaxLines}

----------------------------------------------------------------------------
(* The reader state machine. *)

ReaderState ==
    [pc |-> r_pc, pos |-> r_pos, buf |-> r_buf, start_no |-> r_start_no,
     header |-> r_header, entities |-> r_entities]

SetReaderState(st) ==
    /\ r_pc' = st.pc
    /\ r_pos' = st.pos
    /\ r_buf' = st.buf
    /\ r_start_no' = st.start_no
    /\ r_header' = st.header
    /\ r_entities' = st.entities

RInit ==
    /\ r_file \in Files
    /\ r_pc = "reading" /\ r_pos = 1 /\ r_buf = <<>> /\ r_start_no = 0
    /\ r_header = NoHeader /\ r_entities = <<>>

ReadRecord ==
    /\ r_pc = "reading" /\ r_pos <= Len(r_file)
    /\ \E st \in {ReadRecordStep(r_file, ReaderState)} : SetReaderState(st)
    /\ UNCHANGED r_file
    /\ UNCHANGED <<cvars, svars, ivars, xvars>>

ReadEOF ==
    /\ r_pc = "reading" /\ r_pos > Len(r_file)
    /\ \E st \in {ReadEndOfFile(r_file, ReaderState)} : SetReaderState(st)
    /\ UNCHANGED r_file
    /\ UNCHANGED <<cvars, svars, ivars, xvars>>

----------------------------------------------------------------------------
(* index.py and query.py.  A dict is a function on its set of keys. *)

EmptyDict == <<>>

EmptyIndex == [by_name |-> EmptyDict, by_type |-> EmptyDict]

NoEntity ==
    [name |-> <<>>, command |-> <<>>, params |-> <<>>, raw |-> <<>>,
     lineno_start |-> 0, lineno_end |-> 0]

NoQuery == [op |-> "none", arg |-> <<>>, found |-> FALSE, entity |-> NoEntity, names |-> <<>>]

\* An earlier entity of the same name stays in the dict.
SetName_KeepFirst(by_name, nm, e) ==
    [x \in DOMAIN by_name \cup {nm} |-> IF x \in DOMAIN by_name THEN by_name[x] ELSE e]

\* by_name[nm] = e
SetName(by_name, nm, e) ==
    [x \in DOMAIN by_name \cup {nm} |-> IF x = nm THEN e ELSE by_name[x]]

\* An index that puts each new name at the front of its bucket.
AppendName_Front(by_type, cmd, nm) ==
    [x \in DOMAIN by_type \cup {cmd} |->
        IF x = cmd
          THEN <<nm>> \o (IF cmd \in DOMAIN by_type THEN by_type[cmd] ELSE <<>>)
          ELSE by_type[x]]

\* bucket = by_type.get(cmd), created empty when missing; bucket.append(nm)
AppendName(by_type, cmd, nm) ==
    [x \in DOMAIN by_type \cup {cmd} |->
        IF x = cmd
          THEN Append(IF cmd \in DOMAIN by_type THEN by_type[cmd] ELSE <<>>, nm)
          ELSE by_type[x]]

\* The body of `for e in model['entities']`.
IndexStep(idx, e) ==
    [by_name |-> SetName(idx.by_name, e.name, e),
     by_type |-> AppendName(idx.by_type, e.command, e.name)]

RECURSIVE IndexLoop(_, _, _)
IndexLoop(entities, k, idx) ==
    IF k > Len(entities) THEN idx ELSE IndexLoop(entities, k + 1, IndexStep(idx, entities[k]))

build_index(entities) == IndexLoop(entities, 1, EmptyIndex)

\* idx['by_name'].get(name): found is FALSE for None.
get_entity(idx, name) ==
    IF name \in DOMAIN idx.by_name
      THEN [found |-> TRUE, entity |-> idx.by_name[name]]
      ELSE [found |-> FALSE, entity |-> NoEntity]

\* idx['by_type'].get(entity_type.upper(), [])
list_names_by_type(idx, entity_type) ==
    IF Upper(entity_type) \in DOMAIN idx.by_type
      THEN idx.by_type[Upper(entity_type)] ELSE <<>>

----------------------------------------------------------------------------
(* Models to index: lists of at most MaxEnt entities over two names and    *)
(* two commands, one statement line each.                                  *)

CURVE == <<"C", "U", "R", "V", "E">>
SURF == <<"S", "U", "R", "F">>
IndexNames == {<<"X", "Y", "1">>, <<"S", "2">>}
IndexCommands == {CURVE, SURF}
QueryNames == IndexNames \cup {<<"Z", "9">>}
QueryTypes == {CURVE, <<"c", "u", "r", "v", "e">>, <<"S", "u", "r", "f">>,
               <<"F", "A", "C", "E">>}

EntityAt(k, nm, cmd) ==
    [name |-> nm, command |-> cmd, params |-> <<Num(k, 1)>>,
     raw |-> nm \o <<"=">> \o cmd \o <<"/">>, lineno_start |-> k, lineno_end |-> k]

EntityLists ==
    UNION {{[k \in 1..n |-> EntityAt(k, nms[k], cmds[k])] :
               nms \in [1..n -> IndexNames], cmds \in [1..n -> IndexCommands]} :
           n \in 0..MaxEnt}

----------------------------------------------------------------------------
(* The index state machine: build_index entity by entity, then queries.    *)

IInit ==
    /\ i_model \in EntityLists
    /\ i_pc = "building" /\ i_pos = 0 /\ i_index = EmptyIndex /\ i_query = NoQuery

IndexEntity ==
    /\ i_pc = "building" /\ i_pos < Len(i_model)
    /\ i_index' = IndexStep(i_index, i_model[i_pos + 1])
    /\ i_pos' = i_pos + 1
    /\ UNCHANGED <<i_pc, i_model, i_query>>
    /\ UNCHANGED <<cvars, svars, rvars, xvars>>

IndexReturn ==
    /\ i_pc = "building" /\ i_pos = Len(i_model)
    /\ i_pc' = "built"
    /\ UNCHANGED <<i_model, i_pos, i_index, i_query>>
    /\ UNCHANGED <<cvars, svars, rvars, xvars>>

GetEntity ==
    /\ i_pc = "built"
    /\ \E name \in QueryNames :
         \E r \in {get_entity(i_index, name)} :
           i_query' = [op |-> "get", arg |-> name, found |-> r.found,
                       entity |-> r.entity, names |-> <<>>]
    /\ UNCHANGED <<i_pc, i_model, i_pos, i_index>>
    /\ UNCHANGED <<cvars, svars, rvars, xvars>>

ListNames ==
    /\ i_pc = "built"
    /\ \E t \in QueryTypes :
         i_query' = [op |-> "list", arg |-> t, found |-> FALSE, entity |-> NoEntity,
                     names |-> list_names_by_type(i_index, t)]
    /\ UNCHANGED <<i_pc, i_model, i_pos, i_index>>
    /\ UNCHANGED <<cvars, svars, rvars, xvars>>

----------------------------------------------------------------------------
(* face_eval.py: decode_cons_entity *)

\* params[i] of a Python list: a negative index counts from the end.
PyIn(seq, i) == i < Len(seq) /\ i >= 0 - Len(seq)
PyAt(seq, i) == IF i >= 0 THEN seq[i + 1] ELSE seq[Len(seq) + i + 1]

\* isinstance(tok, str) and tok.startswith(a + b)
StartsWith(tok, a, b) ==
    /\ tok.k = "str"
    /\ Len(tok.s) >= 2
    /\ tok.s[1] = a
    /\ tok.s[2] = b

\* round(x): to the nearest integer, a tie to the even one.
RoundHalfEven(r) ==
    LET n == r[1]
        d == r[2]
        lo == n \div d
        twice == 2 * (n - lo * d)
    IN  IF twice < d THEN lo
        ELSE IF twice > d THEN lo + 1
        ELSE IF lo % 2 = 0 THEN lo ELSE lo + 1

\* A conversion that takes the integer part instead of rounding.
_as_int_Trunc(x) == Trunc(Val(x))

_as_int(x) == RoundHalfEven(Val(x))

CONS == <<"C", "O", "N", "S">>
NoPc == [n |-> 0, pars |-> <<>>, segments |-> <<>>]
NoCons ==
    [surf |-> <<>>, curve |-> <<>>, has_range |-> FALSE, t_start |-> RInt(0),
     t_end |-> RInt(0), has_pc |-> FALSE, pc |-> NoPc]
ConsRaise(msg) == [ok |-> FALSE, err |-> msg, cons |-> NoCons]
ConsReturn(head, has_pc, pc) ==
    [ok |-> TRUE, err |-> "", cons |-> [head EXCEPT !.has_pc = has_pc, !.pc = pc]]

\* [float(params[i + j]) for j in range(K)]: the error of the first token
\* that cannot be read, "" when there is none.
CoefError(params, i, K) ==
    LET bad == {j \in 0..(K - 1) : ~PyIn(params, i + j) \/ ~IsNumeric(PyAt(params, i + j))}
    IN  IF bad = {} THEN ""
        ELSE IF ~PyIn(params, i + SetMin(bad)) THEN IndexError
        ELSE BadLiteral

FloatList(params, i, K) == [j \in 1..K |-> Val(PyAt(params, i + j - 1))]

ConsSegment(params, pars, k, i, K) ==
    [order |-> K, as |-> FloatList(params, i, K), at |-> FloatList(params, i + K, K),
     t0 |-> pars[k + 1], t1 |-> pars[k + 2]]

RECURSIVE ConsSegLoop(_, _, _, _, _, _)

\* The segment after its order K was read; i is at its first coefficient.
ConsSegCoefs(params, pars, n, k, i, segments, K) ==
    IF i + K > Len(params) THEN [ok |-> TRUE, err |-> "", segments |-> segments]
    ELSE IF CoefError(params, i, K) # ""
    THEN [ok |-> FALSE, err |-> CoefError(params, i, K), segments |-> <<>>]
    ELSE IF i + K + K > Len(params) THEN [ok |-> TRUE, err |-> "", segments |-> segments]
    ELSE IF CoefError(params, i + K, K) # ""
    THEN [ok |-> FALSE, err |-> CoefError(params, i + K, K), segments |-> <<>>]
    ELSE ConsSegLoop(params, pars, n, k + 1, i + K + K,
                     Append(segments, ConsSegment(params, pars, k, i, K)))

\* for k in range(n): ... ; a break keeps the segments read so far.
ConsSegLoop(params, pars, n, k, i, segments) ==
    IF k >= n \/ i >= Len(params) THEN [ok |-> TRUE, err |-> "", segments |-> segments]
    ELSE IF ~PyIn(params, i) THEN [ok |-> FALSE, err |-> IndexError, segments |-> <<>>]
    ELSE IF ~IsNumeric(PyAt(params, i))
    THEN [ok |-> TRUE, err |-> "", segments |-> segments]
    ELSE ConsSegCoefs(params, pars, n, k, i + 1, segments, _as_int(PyAt(params, i)))

\* pc = {'n': len(segments), 'pars': pars, 'segments': segments}
ConsPc(head, pars, r) ==
    IF ~r.ok THEN ConsRaise(r.err)
    ELSE ConsReturn(head, TRUE,
                    [n |-> Len(r.segments), pars |-> pars, segments |-> r.segments])

\* The block after its count n was read; i is at the first breakpoint.
ConsPars(params, head, i, n) ==
    IF i + (n + 1) > Len(params) THEN ConsReturn(head, FALSE, NoPc)
    ELSE IF \E j \in 0..n : ~IsNumeric(At(params, i + j)) THEN ConsRaise(BadLiteral)
    ELSE ConsPc(head, [j \in 1..(n + 1) |-> Val(At(params, i + j - 1))],
                ConsSegLoop(params, [j \in 1..(n + 1) |-> Val(At(params, i + j - 1))],
                            n, 0, i + n + 1, <<>>))

ConsCount(params, head, i) ==
    IF i >= Len(params) \/ ~IsNumeric(At(params, i)) THEN ConsReturn(head, FALSE, NoPc)
    ELSE ConsPars(params, head, i + 1, _as_int(At(params, i)))

\* if i + 1 < len(params) and both tokens are numbers: t_start, t_end
ConsHasRange(params) ==
    /\ 3 < Len(params)
    /\ IsNumeric(params[3])
    /\ IsNumeric(params[4])

ConsHead(params) ==
    [surf |-> params[1].s, curve |-> params[2].s, has_range |-> ConsHasRange(params),
     t_start |-> IF ConsHasRange(params) THEN Val(params[3]) ELSE RInt(0),
     t_end |-> IF ConsHasRange(params) THEN Val(params[4]) ELSE RInt(0),
     has_pc |-> FALSE, pc |-> NoPc]

decode_cons_entity(entity) ==
    IF entity.command # CONS THEN ConsRaise("Entity is not a CONS")
    ELSE IF Len(entity.params) < 2 THEN ConsRaise("CONS is missing SR/CV references")
    ELSE IF ~StartsWith(entity.params[1], "S", "R")
    THEN ConsRaise("CONS first param must be SR reference")
    ELSE IF ~StartsWith(entity.params[2], "C", "V")
    THEN ConsRaise("CONS second param must be CV reference")
    ELSE ConsCount(entity.params, ConsHead(entity.params),
                   IF ConsHasRange(entity.params) THEN 4 ELSE 2)

(* Inputs: CONS parameter lists with an optional t range and a p-curve     *)
(* block of n segments, each defect of the block, and a non-CONS entity.   *)

SRRef == Str(<<"S", "R", "1">>)
CVRef == Str(<<"C", "V", "2">>)

ConsBlock(k0, k) ==
    <<Num(OrderOf(k0, k), 1)>>
    \o [q \in 1..(2 * OrderOf(k0, k)) |-> Num(Coef(0, k, (q - 1) \div OrderOf(k0, k), q), 1)]

RECURSIVE ConsBlocks(_, _, _)
ConsBlocks(k0, k, n) == IF k >= n THEN <<>> ELSE ConsBlock(k0, k) \o ConsBlocks(k0, k + 1, n)

ConsRange(tr) == IF tr THEN <<Num(0, 1), Num(1, 1)>> ELSE <<>>

ConsPcurve(n, k0) ==
    <<Num(n, 1)>> \o NumSeq([q \in 1..(n + 1) |-> q - 1]) \o ConsBlocks(k0, 0, n)

ConsTokens(tr, n, k0) == <<SRRef, CVRef>> \o ConsRange(tr) \o ConsPcurve(n, k0)

RECURSIVE ConsOrderPositions(_, _, _, _)
ConsOrderPositions(p, k0, k, n) ==
    IF k >= n THEN {}
    ELSE {p} \cup ConsOrderPositions(p + 1 + 2 * OrderOf(k0, k), k0, k + 1, n)

ConsHeadLen(tr, n) == 2 + (IF tr THEN 2 ELSE 0) + 1 + (n + 1)

ConsParams ==
    UNION {{ConsTokens(tr, n, k0)}
           \cup Defected(ConsTokens(tr, n, k0), ConsHeadLen(tr, n),
                         ConsOrderPositions(ConsHeadLen(tr, n) + 1, k0, 0, n))
           \cup {[ConsTokens(tr, n, k0) EXCEPT ![ConsHeadLen(tr, n) - n - 1] = Num(5, 2)]}
           : tr \in BOOLEAN, n \in 1..MaxSeg, k0 \in 0..(MaxOrder - 1)}

ConsEntities ==
    {[command |-> CONS, params |-> p] : p \in ConsParams}
    \cup {[command |-> CURVE, params |-> ConsTokens(FALSE, 1, 0)]}

KIdle == k_pc = "idle" /\ k_entity = [command |-> <<>>, params |-> <<>>]
         /\ k_cons = NoCons /\ k_err = ""

KInit ==
    /\ k_pc = "input"
    /\ k_entity \in ConsEntities
    /\ k_cons = NoCons
    /\ k_err = ""

DecodeCons ==
    /\ k_pc = "input"
    /\ \E r \in {decode_cons_entity(k_entity)} :
         /\ k_pc' = IF r.ok THEN "decoded" ELSE "failed"
         /\ k_cons' = r.cons
         /\ k_err' = r.err
    /\ UNCHANGED k_entity
    /\ UNCHANGED <<cvars, svars, ivars, rvars, fvars, qvars, evars, nvars, tvars>>

----------------------------------------------------------------------------
(* face_eval.py: decode_face_entity, one step per loop iteration.  f_i is  *)
(* the read cursor i, f_left the iterations left of `for _ in range(cnt)`. *)

MaxLoops == 2
MaxItems == 2

FACE == <<"F", "A", "C", "E">>

\* Skip the optional explicit loop count: a number followed by a number.
FaceSkipsCount(params) ==
    /\ 1 < Len(params)
    /\ IsNumeric(At(params, 1))
    /\ 2 < Len(params)
    /\ IsNumeric(At(params, 2))

\* A decoder for which a triple without a CONS reference is an error.
TripleOutcome_Fatal(params, i) ==
    IF i + 2 >= Len(params) THEN "short"
    ELSE IF ~StartsWith(At(params, i), "C", "N") THEN "raise"
    ELSE IF ~IsNumeric(At(params, i + 1)) \/ ~IsNumeric(At(params, i + 2)) THEN "raise"
    ELSE "item"

\* A decoder that takes any string as the reference of a triple.
TripleOutcome_AnyRef(params, i) ==
    IF i + 2 >= Len(params) THEN "short"
    ELSE IF At(params, i).k # "str" THEN "not_cons"
    ELSE IF ~IsNumeric(At(params, i + 1)) \/ ~IsNumeric(At(params, i + 2)) THEN "raise"
    ELSE "item"

\* One iteration of the for loop with the cursor at i.
TripleOutcome(params, i) ==
    IF i + 2 >= Len(params) THEN "short"
    ELSE IF ~StartsWith(At(params, i), "C", "N") THEN "not_cons"
    ELSE IF ~IsNumeric(At(params, i + 1)) \/ ~IsNumeric(At(params, i + 2)) THEN "raise"
    ELSE "item"

FaceItem(params, i) ==
    [cons |-> At(params, i).s, u |-> Val(At(params, i + 1)), v |-> Val(At(params, i + 2))]

(* Inputs: FACE parameter lists of up to MaxLoops loops of up to MaxItems  *)
(* triples, with or without the explicit loop count, and their defects.    *)

CNRef(l, j) == Str(<<"C", "N", CHOOSE c \in Digit : DigitVal(c) = l, CHOOSE c \in Digit : DigitVal(c) = j>>)

RECURSIVE FaceTriples(_, _, _)
FaceTriples(l, j, cnt) ==
    IF j > cnt THEN <<>>
    ELSE <<CNRef(l, j), Num(j, 1), Num(l, 2)>> \o FaceTriples(l, j + 1, cnt)

RECURSIVE FaceLoops(_, _)
FaceLoops(counts, l) ==
    IF l > Len(counts) THEN <<>>
    ELSE <<Num(counts[l], 1)>> \o FaceTriples(l, 1, counts[l]) \o FaceLoops(counts, l + 1)

FaceTokens(nl, counts) ==
    <<SRRef>> \o (IF nl THEN <<Num(Len(counts), 1)>> ELSE <<>>) \o FaceLoops(counts, 1)

\* The positions of the count tokens and of the CONS references.
RECURSIVE FaceMarks(_, _, _)
FaceMarks(p, counts, l) ==
    IF l > Len(counts) THEN {}
    ELSE {p} \cup {p + 1 + 3 * j : j \in 0..(counts[l] - 1)}
         \cup FaceMarks(p + 1 + 3 * counts[l], counts, l + 1)

FaceCounts == UNION {[1..m -> 1..MaxItems] : m \in 1..MaxLoops}

FaceParams ==
    UNION {{FaceTokens(nl, counts), FaceTokens(nl, counts) \o <<Num(1, 1)>>}
           \cup Defected(FaceTokens(nl, counts), IF nl THEN 2 ELSE 1,
                         FaceMarks(IF nl THEN 3 ELSE 2, counts, 1))
           : nl \in BOOLEAN, counts \in FaceCounts}

FaceEntities ==
    {[command |-> FACE, params |-> p] : p \in FaceParams \cup {<<>>}}
    \cup {[command |-> CONS, params |-> FaceTokens(FALSE, <<1>>)]}

FIdle ==
    /\ f_pc = "idle" /\ f_entity = [command |-> <<>>, params |-> <<>>]
    /\ f_i = 0 /\ f_cnt = 0 /\ f_left = 0 /\ f_items = <<>> /\ f_loops = <<>> /\ f_err = ""

FInit ==
    /\ f_pc = "input"
    /\ f_entity \in FaceEntities
    /\ f_i = 0 /\ f_cnt = 0 /\ f_left = 0 /\ f_items = <<>> /\ f_loops = <<>> /\ f_err = ""

FaceFail(msg) ==
    /\ f_pc' = "failed"
    /\ f_err' = msg
    /\ UNCHANGED <<f_entity, f_i, f_cnt, f_left, f_items, f_loops>>

\* The checks before the loops, and the skip of the explicit loop count.
FaceBegin ==
    /\ f_pc = "input"
    /\ IF f_entity.command # FACE THEN FaceFail("Entity is not a FACE")
       ELSE IF f_entity.params = <<>> THEN FaceFail("FACE missing parameters")
       ELSE IF ~StartsWith(f_entity.params[1], "S", "R")
       THEN FaceFail("FACE first param must be SR reference")
       ELSE /\ f_pc' = "while"
            /\ f_i' = IF FaceSkipsCount(f_entity.params) THEN 2 ELSE 1
            /\ UNCHANGED <<f_entity, f_cnt, f_left, f_items, f_loops, f_err>>
    /\ UNCHANGED <<cvars, svars, ivars, rvars, kvars, qvars, evars, nvars, tvars>>

\* A decoder that goes round the while loop again, instead of leaving it, when
\* the token at the cursor is no count.
FaceCount_Continue ==
    /\ f_pc = "while"
    /\ IF f_i >= Len(f_entity.params)
       THEN /\ f_pc' = "done"
            /\ UNCHANGED <<f_i, f_cnt, f_left, f_items>>
       ELSE IF ~IsNumeric(At(f_entity.params, f_i))
       THEN UNCHANGED <<f_pc, f_i, f_cnt, f_left, f_items>>
       ELSE /\ f_cnt' = _as_int(At(f_entity.params, f_i))
            /\ f_left' = Max(f_cnt', 0)
            /\ f_i' = f_i + 1
            /\ f_items' = <<>>
            /\ f_pc' = IF f_cnt' > 0 THEN "for" ELSE "endfor"
    /\ UNCHANGED <<f_entity, f_loops, f_err>>
    /\ UNCHANGED <<cvars, svars, ivars, rvars, kvars, qvars, evars, nvars, tvars>>

\* while i < len(params): read the count of the next loop, or return.
FaceCount ==
    /\ f_pc = "while"
    /\ IF f_i >= Len(f_entity.params) \/ ~IsNumeric(At(f_entity.params, f_i))
       THEN /\ f_pc' = "done"
            /\ UNCHANGED <<f_i, f_cnt, f_left, f_items>>
       ELSE /\ f_cnt' = _as_int(At(f_entity.params, f_i))
            /\ f_left' = Max(f_cnt', 0)
            /\ f_i' = f_i + 1
            /\ f_items' = <<>>
            /\ f_pc' = IF f_cnt' > 0 THEN "for" ELSE "endfor"
    /\ UNCHANGED <<f_entity, f_loops, f_err>>
    /\ UNCHANGED <<cvars, svars, ivars, rvars, kvars, qvars, evars, nvars, tvars>>

\* One iteration of `for _ in range(cnt)`.
FaceTriple ==
    /\ f_pc = "for"
    /\ \E outcome \in {TripleOutcome(f_entity.params, f_i)} :
         CASE outcome = "item" ->
                /\ f_items' = Append(f_items, FaceItem(f_entity.params, f_i))
                /\ f_i' = f_i + 3
                /\ f_left' = f_left - 1
                /\ f_pc' = IF f_left' > 0 THEN "for" ELSE "endfor"
                /\ UNCHANGED <<f_entity, f_cnt, f_loops, f_err>>
           [] outcome = "raise" -> FaceFail(BadLiteral)
           [] OTHER ->
                /\ f_pc' = "endfor"
                /\ UNCHANGED <<f_entity, f_i, f_cnt, f_left, f_items, f_loops, f_err>>
    /\ UNCHANGED <<cvars, svars, ivars, rvars, kvars, qvars, evars, nvars, tvars>>

\* After the for loop: keep the loop if it has items, else stop.
FaceEndFor ==
    /\ f_pc = "endfor"
    /\ IF f_items # <<>>
       THEN /\ f_loops' = Append(f_loops, [count |-> Len(f_items), items |-> f_items])
            /\ f_pc' = "while"
       ELSE /\ f_pc' = "done"
            /\ UNCHANGED f_loops
    /\ UNCHANGED <<f_entity, f_i, f_cnt, f_left, f_items, f_err>>
    /\ UNCHANGED <<cvars, svars, ivars, rvars, kvars, qvars, evars, nvars, tvars>>

----------------------------------------------------------------------------
(* check_surf_continuity.py: check_surf, one step per seam.  A deviation   *)
(* is kept as the square of norm3, which is rational; max and the          *)
(* comparisons with a threshold are the same on the squares.               *)

samples == 101

\* (a[0]-b[0])**2 + (a[1]-b[1])**2 + (a[2]-b[2])**2
norm3sq(a, b) ==
    RAdd(RAdd(RMul(RSub(a[1], b[1]), RSub(a[1], b[1])),
              RMul(RSub(a[2], b[2]), RSub(a[2], b[2]))),
         RMul(RSub(a[3], b[3]), RSub(a[3], b[3])))

eval_patch_point(p, uu, vv) == PatchPoint(p, uu, vv)

\* grid = {(p['u_idx'], p['v_idx']): p for p in patches}: the last one wins.
grid(patches, ui, vj) ==
    patches[SetMax({q \in 1..Len(patches) :
                      patches[q].u_idx = ui /\ patches[q].v_idx = vj})]

\* A checker that compares the far edges of both patches.
SeamPoints_SameFraction(dir, pA, pB, x) ==
    IF dir = "v" THEN <<eval_patch_point(pA, x, RInt(1)), eval_patch_point(pB, x, RInt(1))>>
    ELSE <<eval_patch_point(pA, RInt(1), x), eval_patch_point(pB, RInt(1), x)>>

\* a, b of one sample: along v the edge v = 1 of pL against the edge v = 0 of
\* pR, along u the edge u = 1 of pB against the edge u = 0 of pT.
SeamPoints(dir, pA, pB, x) ==
    IF dir = "v" THEN <<eval_patch_point(pA, x, RInt(1)), eval_patch_point(pB, x, RInt(0))>>
    ELSE <<eval_patch_point(pA, RInt(1), x), eval_patch_point(pB, RInt(0), x)>>

SeamErr(pts) == norm3sq(pts[1], pts[2])

\* errs of k in range(samples), at k / (samples - 1)
SeamErrs(dir, pA, pB) ==
    {SeamErr(SeamPoints(dir, pA, pB, Rat(k, samples - 1))) : k \in 0..(samples - 1)}

\* max(errs)
SetMaxR(errs) == CHOOSE m \in errs : \A e \in errs : RLe(e, m)

SeamMax(dir, pA, pB) == SetMaxR(SeamErrs(dir, pA, pB))

\* The m-th seam along v: ui = m // (nv-1), between vj = m % (nv-1) and vj+1.
SeamV(surf, m) ==
    [dir |-> "v", a |-> m \div (surf.nv - 1), b |-> m % (surf.nv - 1),
     max |-> SeamMax("v", grid(surf.patches, m \div (surf.nv - 1), m % (surf.nv - 1)),
                     grid(surf.patches, m \div (surf.nv - 1), (m % (surf.nv - 1)) + 1))]

\* The m-th seam along u: vi = m // (nu-1), between uj = m % (nu-1) and uj+1.
SeamU(surf, m) ==
    [dir |-> "u", a |-> m \div (surf.nu - 1), b |-> m % (surf.nu - 1),
     max |-> SeamMax("u", grid(surf.patches, m % (surf.nu - 1), m \div (surf.nu - 1)),
                     grid(surf.patches, (m % (surf.nu - 1)) + 1, m \div (surf.nu - 1)))]

(* Inputs: identity surfaces over increasing breakpoints, as they are or   *)
(* with one patch whose v axis or u axis is reversed, and a list that does *)
(* not decode.                                                             *)

FlippedBlock(flip, s0, s1, t0, t1) ==
    IF flip = "v" THEN IdentityBlock(s0, s1, t1, t0)
    ELSE IF flip = "u" THEN IdentityBlock(s1, s0, t0, t1)
    ELSE IdentityBlock(s0, s1, t0, t1)

RECURSIVE CheckBlocks(_, _, _, _, _, _)
CheckBlocks(flip, fp, npt, sbp, tbp, p) ==
    IF p >= (Len(sbp) - 1) * npt THEN <<>>
    ELSE FlippedBlock(IF p = fp THEN flip ELSE "none",
                      sbp[(p \div npt) + 1], sbp[(p \div npt) + 2],
                      tbp[(p % npt) + 1], tbp[(p % npt) + 2])
         \o CheckBlocks(flip, fp, npt, sbp, tbp, p + 1)

CheckTokens(flip, fp, sbp, tbp) ==
    <<Num(Len(sbp) - 1, 1), Num(Len(tbp) - 1, 1)>> \o NumSeq(sbp) \o NumSeq(tbp)
    \o CheckBlocks(flip, fp, Len(tbp) - 1, sbp, tbp, 0)

Increasing(n) == {[q \in 1..(n + 1) |-> q - 1], [q \in 1..(n + 1) |-> 2 * q - 1]}

CheckInputs ==
    UNION { {CheckTokens(flip, fp, sbp, tbp) :
                flip \in {"none", "u", "v"}, fp \in 0..(sh[1] * sh[2] - 1),
                sbp \in Increasing(sh[1]), tbp \in Increasing(sh[2])} :
            sh \in {x \in SurfShapes : x[1] * x[2] <= 4} }
    \cup {SubSeq(CheckTokens("none", 0, <<0, 1>>, <<0, 1>>), 1, 9)}

QIdle == q_pc = "idle" /\ q_params = <<>> /\ q_surf = NoSurf /\ q_m = 0 /\ q_seams = <<>>

QInit ==
    /\ q_pc = "input"
    /\ q_params \in CheckInputs
    /\ q_surf = NoSurf
    /\ q_m = 0
    /\ q_seams = <<>>

\* surf = se.decode_surf_entity(e)
CheckDecode ==
    /\ q_pc = "input"
    /\ \E r \in {_decode_surf_params(q_params)} :
         /\ q_pc' = IF r.ok THEN "seams_v" ELSE "failed"
         /\ q_surf' = r.surf
    /\ UNCHANGED <<q_params, q_m, q_seams>>
    /\ UNCHANGED <<cvars, svars, ivars, rvars, kvars, fvars, evars, nvars, tvars>>

\* for ui in range(nu): for vj in range(nv-1): one seam
CheckSeamV ==
    /\ q_pc = "seams_v"
    /\ q_m < q_surf.nu * (q_surf.nv - 1)
    /\ q_seams' = Append(q_seams, SeamV(q_surf, q_m))
    /\ q_m' = q_m + 1
    /\ UNCHANGED <<q_pc, q_params, q_surf>>
    /\ UNCHANGED <<cvars, svars, ivars, rvars, kvars, fvars, evars, nvars, tvars>>

\* The seams along v are done; go on with the seams along u.
CheckSeamsU ==
    /\ q_pc = "seams_v"
    /\ q_m >= q_surf.nu * (q_surf.nv - 1)
    /\ q_pc' = "seams_u"
    /\ q_m' = 0
    /\ UNCHANGED <<q_params, q_surf, q_seams>>
    /\ UNCHANGED <<cvars, svars, ivars, rvars, kvars, fvars, evars, nvars, tvars>>

\* for vi in range(nv): for uj in range(nu-1): one seam
CheckSeamU ==
    /\ q_pc = "seams_u"
    /\ q_m < q_surf.nv * (q_surf.nu - 1)
    /\ q_seams' = Append(q_seams, SeamU(q_surf, q_m))
    /\ q_m' = q_m + 1
    /\ UNCHANGED <<q_pc, q_params, q_surf>>
    /\ UNCHANGED <<cvars, svars, ivars, rvars, kvars, fvars, evars, nvars, tvars>>

\* return 0
CheckReturn ==
    /\ q_pc = "seams_u"
    /\ q_m >= q_surf.nv * (q_surf.nu - 1)
    /\ q_pc' = "done"
    /\ UNCHANGED <<q_params, q_surf, q_m, q_seams>>
    /\ UNCHANGED <<cvars, svars, ivars, rvars, kvars, fvars, evars, nvars, tvars>>

----------------------------------------------------------------------------
(* face_eval.py: decode_face_entity as a function, and tools/export_faces.py *)

RECURSIVE FaceWhile(_, _, _)
RECURSIVE FaceForLoop(_, _, _, _)

\* for _ in range(cnt), with `left` iterations to go.
FaceForLoop(params, i, left, items) ==
    IF left <= 0 THEN [ok |-> TRUE, i |-> i, items |-> items]
    ELSE IF TripleOutcome(params, i) = "item"
    THEN FaceForLoop(params, i + 3, left - 1, Append(items, FaceItem(params, i)))
    ELSE [ok |-> TripleOutcome(params, i) # "raise", i |-> i, items |-> items]

FaceAfterFor(params, loops, r) ==
    IF ~r.ok THEN [ok |-> FALSE, err |-> BadLiteral, loops |-> <<>>]
    ELSE IF r.items = <<>> THEN [ok |-> TRUE, err |-> "", loops |-> loops]
    ELSE FaceWhile(params, r.i, Append(loops, [count |-> Len(r.items), items |-> r.items]))

FaceWhile(params, i, loops) ==
    IF i >= Len(params) \/ ~IsNumeric(At(params, i))
    THEN [ok |-> TRUE, err |-> "", loops |-> loops]
    ELSE FaceAfterFor(params, loops,
                      FaceForLoop(params, i + 1, _as_int(At(params, i)), <<>>))

FaceRaise(msg) == [ok |-> FALSE, err |-> msg, surf |-> <<>>, loops |-> <<>>]
FaceResult(surf, r) == [ok |-> r.ok, err |-> r.err, surf |-> surf, loops |-> r.loops]

decode_face_entity(entity) ==
    IF entity.command # FACE THEN FaceRaise("Entity is not a FACE")
    ELSE IF entity.params = <<>> THEN FaceRaise("FACE missing parameters")
    ELSE IF ~StartsWith(entity.params[1], "S", "R")
    THEN FaceRaise("FACE first param must be SR reference")
    ELSE FaceResult(entity.params[1].s,
                    FaceWhile(entity.params,
                              IF FaceSkipsCount(entity.params) THEN 2 ELSE 1, <<>>))

\* add(nm): if nm and nm not in seen
AddName(needed, nm) ==
    IF nm = <<>> \/ (\E q \in 1..Len(needed) : needed[q] = nm) THEN needed
    ELSE Append(needed, nm)

RECURSIVE AllItems(_)
AllItems(loops) == IF loops = <<>> THEN <<>> ELSE loops[1].items \o AllItems(Tail(loops))

\* The curve of a CONS item, when the name resolves to a CONS entity.
RECURSIVE DepsLoop(_, _, _, _)
DepsCons(by_name, items, q, needed, d) ==
    IF ~d.ok THEN [ok |-> FALSE, err |-> d.err, needed |-> <<>>]
    ELSE DepsLoop(by_name, items, q + 1, AddName(needed, d.cons.curve))

\* for loop in f['loops']: for it in loop['items']: add(cn), add(cv)
DepsLoop(by_name, items, q, needed) ==
    IF q > Len(items) THEN [ok |-> TRUE, err |-> "", needed |-> needed]
    ELSE IF items[q].cons \in DOMAIN by_name /\ by_name[items[q].cons].command = CONS
    THEN DepsCons(by_name, items, q, AddName(needed, items[q].cons),
                  decode_cons_entity(by_name[items[q].cons]))
    ELSE DepsLoop(by_name, items, q + 1, AddName(needed, items[q].cons))

DepsFaceLast(face_name, r) ==
    IF ~r.ok THEN r ELSE [r EXCEPT !.needed = AddName(r.needed, face_name)]

DepsOfFace(by_name, face_name, f) ==
    IF ~f.ok THEN [ok |-> FALSE, err |-> f.err, needed |-> <<>>]
    ELSE DepsFaceLast(face_name, DepsLoop(by_name, AllItems(f.loops), 1, AddName(<<>>, f.surf)))

_collect_face_deps(by_name, face_name) ==
    IF face_name \notin DOMAIN by_name \/ by_name[face_name].command # FACE
    THEN [ok |-> FALSE, err |-> "KeyError: FACE not found", needed |-> <<>>]
    ELSE DepsOfFace(by_name, face_name, decode_face_entity(by_name[face_name]))

\* The order of sorted() on names: by code point, digits before letters.
CharCode(c) ==
    IF c \in Digit THEN 48 + DigitVal(c)
    ELSE 64 + (CHOOSE q \in 1..Len(UpperSeq) : UpperSeq[q] = c)

RECURSIVE StrLt(_, _)
StrLt(a, b) ==
    IF b = <<>> THEN FALSE
    ELSE IF a = <<>> THEN TRUE
    ELSE IF a[1] # b[1] THEN CharCode(a[1]) < CharCode(b[1])
    ELSE StrLt(Tail(a), Tail(b))

RECURSIVE Sorted(_)
Sorted(S) ==
    IF S = {} THEN <<>>
    ELSE <<CHOOSE x \in S : \A y \in S \ {x} : StrLt(x, y)>>
         \o Sorted(S \ {CHOOSE x \in S : \A y \in S \ {x} : StrLt(x, y)})

\* sorted(_names_by_cmd(cmd))
_names_by_cmd(by_name, deps, cmd) ==
    Sorted({deps[q] : q \in {p \in 1..Len(deps) :
                               deps[p] \in DOMAIN by_name /\ by_name[deps[p]].command = cmd}})

\* for cmd in essential_order: CURVE, SURF and CONS sorted, then the FACE
OrderedNames(by_name, deps, face_name) ==
    _names_by_cmd(by_name, deps, CURVE) \o _names_by_cmd(by_name, deps, SURF)
    \o _names_by_cmd(by_name, deps, CONS) \o <<face_name>>

RECURSIVE _wrap_72(_)
\* while s: out.append(s[:72]); s = s[72:]
_wrap_72(text) ==
    IF Len(text) <= 72
    THEN <<text>>
    ELSE <<SubSeq(text, 1, 72)>> \o _wrap_72(SubSeq(text, 73, Len(text)))

RECURSIVE NatStr(_)
NatStr(n) ==
    (IF n >= 10 THEN NatStr(n \div 10) ELSE <<>>)
    \o <<CHOOSE c \in Digit : DigitVal(c) = n % 10>>

\* f"{n}"
IntStr(n) == IF n < 0 THEN <<"-">> \o NatStr(0 - n) ELSE NatStr(n)

\* f"{hname} = HEADER / {n}" and header['lines'][:n]
HeaderLines(header) ==
    IF ~header.present THEN <<>>
    ELSE <<header.name \o <<" ", "=", " ", "H", "E", "A", "D", "E", "R", " ", "/", " ">> \o IntStr(header.n_lines)>>
         \o header.lines

RECURSIVE EntityLines(_, _, _)
\* for nm in ordered: the chunks of by_name[nm]['raw']
EntityLines(by_name, ordered, q) ==
    IF q > Len(ordered) THEN <<>>
    ELSE (IF ordered[q] \in DOMAIN by_name /\ by_name[ordered[q]].raw # <<>>
          THEN _wrap_72(by_name[ordered[q]].raw) ELSE <<>>)
         \o EntityLines(by_name, ordered, q + 1)

WriteLines(header, by_name, face_name, d) ==
    IF ~d.ok THEN [ok |-> FALSE, err |-> d.err, ordered |-> <<>>, lines |-> <<>>]
    ELSE [ok |-> TRUE, err |-> "",
          ordered |-> OrderedNames(by_name, d.needed, face_name),
          lines |-> HeaderLines(header)
                    \o EntityLines(by_name, OrderedNames(by_name, d.needed, face_name), 1)
                    \o <<END>>]

write_face_file(model, idx, face_name) ==
    WriteLines(model.header, idx.by_name, face_name,
               _collect_face_deps(idx.by_name, face_name))

(* Inputs: files of at most MaxLines of the lines below, and the name of   *)
(* the FACE to export.                                                     *)

LineHeaderOne == <<"H", "1", " ", "=", " ", "H", "E", "A", "D", "E", "R", " ", "/", " ",
    "1">>
LineCons == <<"C", "N", "1", " ", "=", " ", "C", "O", "N", "S", " ", "/", " ", "S", "R",
    "1", ",", " ", "C", "V", "2">>
LineCurveTwo == <<"C", "V", "2", " ", "=", " ", "C", "U", "R", "V", "E", " ", "/", " ",
    "1">>
LineFace == <<"F", "1", " ", "=", " ", "F", "A", "C", "E", " ", "/", " ", "S", "R", "1",
    ",", " ", "1", ",", " ", "C", "N", "1", ",", " ", "0", ",", " ", "1">>
LineFaceHead == <<"F", "2", " ", "=", " ", "F", "A", "C", "E", " ", "/", " ", "S", "R",
    "1", ",", " ", "1", ",", " ", "C", "N", "1", ",", " ", "0", ",">>
LineFaceHeadPadded == Pad(LineFaceHead, DataCols)
LineContPadded == Pad(<<"1">>, DataCols)

ExportCorpus ==
    {LineHeaderOne, LineFreeText, LineCons, LineCurveTwo, LineFace, LineFaceHead,
     LineFaceHeadPadded, LineContPadded}

ExportFiles == UNION {[1..n -> ExportCorpus] : n \in 1..MaxLines}

NameF1 == <<"F", "1">>
NameF2 == <<"F", "2">>
NameCN1 == <<"C", "N", "1">>
ExportNames == {NameF1, NameF2, NameCN1}

NoModel == [header |-> NoHeader, entities |-> <<>>]

EIdle ==
    /\ e_pc = "idle" /\ e_src = <<>> /\ e_face = <<>> /\ e_model = NoModel
    /\ e_ordered = <<>> /\ e_lines = <<>> /\ e_back = NoModel /\ e_err = ""

EInit ==
    /\ e_pc = "input"
    /\ e_src \in ExportFiles
    /\ e_face \in ExportNames
    /\ e_model = NoModel
    /\ e_ordered = <<>> /\ e_lines = <<>> /\ e_back = NoModel /\ e_err = ""

\* model = read_vdafs(path) of the source file
ExportRead ==
    /\ e_pc = "input"
    /\ \E st \in {read_vdafs(e_src)} :
         e_model' = [header |-> st.header, entities |-> st.entities]
    /\ e_pc' = "read"
    /\ UNCHANGED <<e_src, e_face, e_ordered, e_lines, e_back, e_err>>
    /\ UNCHANGED <<cvars, svars, ivars, rvars, kvars, fvars, qvars, nvars, tvars>>

\* write_face_file(model, build_index(model), face_name, out_path)
ExportWrite ==
    /\ e_pc = "read"
    /\ \E r \in {write_face_file(e_model, build_index(e_model.entities), e_face)} :
         /\ e_pc' = IF r.ok THEN "written" ELSE "failed"
         /\ e_err' = r.err
         /\ e_ordered' = r.ordered
         /\ e_lines' = r.lines
    /\ UNCHANGED <<e_src, e_face, e_model, e_back>>
    /\ UNCHANGED <<cvars, svars, ivars, rvars, kvars, fvars, qvars, nvars, tvars>>

\* read_vdafs(out_path) of the exported file
ExportReRead ==
    /\ e_pc = "written"
    /\ \E st \in {read_vdafs(e_lines)} :
         e_back' = [header |-> st.header, entities |-> st.entities]
    /\ e_pc' = "reread"
    /\ UNCHANGED <<e_src, e_face, e_model, e_ordered, e_lines, e_err>>
    /\ UNCHANGED <<cvars, svars, ivars, rvars, kvars, fvars, qvars, nvars, tvars>>

----------------------------------------------------------------------------
(* read_vdafs on a file and on the same file with one more line.  The two  *)
(* reads are two runs of the program on two files.                         *)

LineCommentIndented == <<" ", "\t">> \o LineComment
\* The marker in columns 72 and 73: data[:72] ends with one "$".
LineCommentFar == Pad(<<>>, DataCols - 1) \o <<"$", "$", " ", "7">>
\* Blank data columns and a sequence number behind them.
LineBlankNumbered == Pad(<<>>, DataCols) \o <<"4", "2">>

InsertCorpus == {LineHeader, LineCurve, LineCont, LineFreeText, LineEnd, LineBad}
InsertFiles == UNION {[1..n -> InsertCorpus] : n \in 0..MaxLines}
InsertLines == {LineComment, LineCommentIndented, LineCommentFar, LineBlank, LineBlankNumbered}

\* The file with line put in as its line number at.
Inserted(file, at, line) ==
    SubSeq(file, 1, at - 1) \o <<line>> \o SubSeq(file, at, Len(file))

NIdle ==
    /\ n_pc = "idle" /\ n_file = <<>> /\ n_at = 0 /\ n_line = <<>>
    /\ n_plain = <<>> /\ n_edited = <<>>

NInit ==
    /\ n_pc = "input"
    /\ n_file \in InsertFiles
    /\ n_at \in 1..(Len(n_file) + 1)
    /\ n_line \in InsertLines
    /\ n_plain = <<>> /\ n_edited = <<>>

ReadPlain ==
    /\ n_pc = "input"
    /\ n_plain' = read_vdafs(n_file).entities
    /\ n_pc' = "plain"
    /\ UNCHANGED <<n_file, n_at, n_line, n_edited>>
    /\ UNCHANGED <<cvars, svars, ivars, rvars, kvars, fvars, qvars, evars, tvars>>

ReadEdited ==
    /\ n_pc = "plain"
    /\ n_edited' = read_vdafs(Inserted(n_file, n_at, n_line)).entities
    /\ n_pc' = "both"
    /\ UNCHANGED <<n_file, n_at, n_line, n_plain>>
    /\ UNCHANGED <<cvars, svars, ivars, rvars, kvars, fvars, qvars, evars, tvars>>

----------------------------------------------------------------------------
(* _split_params on a parameter tail.  t_types holds type(p).__name__ of   *)
(* each token p, which the token records themselves do not keep.           *)

\* type(_to_number(tok)) for a stripped, non-empty field.
FloatOrStringType(fp) == IF fp.ok THEN "float" ELSE "str"

_to_number_Type_FloatFirst(tok) == FloatOrStringType(FloatParse(Strip(tok)))

_to_number_Type(tok) ==
    IF IntMatch(Strip(tok)) THEN "int" ELSE FloatOrStringType(FloatParse(Strip(tok)))

ParamType(fld) ==
    IF fld = <<>> THEN <<>>
    ELSE IF RefMatch(fld) THEN <<"str">>
    ELSE <<_to_number_Type(fld)>>

RECURSIVE ParamTypes(_)
ParamTypes(parts) ==
    IF parts = <<>> THEN <<>>
    ELSE ParamType(Strip(parts[1])) \o ParamTypes(Tail(parts))

_split_params_Types(rest) ==
    IF Strip(rest) = <<>> THEN <<>> ELSE ParamTypes(SplitComma(rest))

MaxFields == 3        \* comma-separated fields of a generated tail

TailFields == {
    <<"S", "R", "8", "5">>,
    <<" ", "C", "V", "5", "7", " ">>,
    <<"7">>,
    <<"-", "3">>,
    <<"0", ".", "5">>,
    <<"1", "e", "3">>,
    <<>>,
    <<" ", "\t">>,
    <<"s", "r", "8", "5">>,
    <<"S", "1">>,
    <<"+", ".", "5", "E", "-", "1">>,
    <<"1", ".", "5", ".", "2">>,
    <<"S", "R", "8", "X">>,
    <<"5", ".">>}

RECURSIVE JoinComma(_)
JoinComma(flds) ==
    IF Len(flds) = 1 THEN flds[1] ELSE flds[1] \o <<",">> \o JoinComma(Tail(flds))

Tails == {JoinComma(f) : f \in UNION {[1..n -> TailFields] : n \in 1..MaxFields}}

TIdle == t_pc = "idle" /\ t_tail = <<>> /\ t_tokens = <<>> /\ t_types = <<>>

TInit == t_pc = "input" /\ t_tail \in Tails /\ t_tokens = <<>> /\ t_types = <<>>

Tokenize ==
    /\ t_pc = "input"
    /\ t_tokens' = _split_params(t_tail)
    /\ t_types' = _split_params_Types(t_tail)
    /\ t_pc' = "done"
    /\ UNCHANGED t_tail
    /\ UNCHANGED <<cvars, svars, ivars, rvars, kvars, fvars, qvars, evars, nvars>>

----------------------------------------------------------------------------
(* Specifications.  Each one runs one component; the variables of the      *)
(* others stay at their idle values.                                       *)

SIdle == s_pc = "idle" /\ s_params = <<>> /\ s_surf = NoSurf /\ s_err = "" /\ s_op = NoSurfOp
IIdle ==
    /\ i_pc = "idle" /\ i_model = <<>> /\ i_pos = 0 /\ i_index = EmptyIndex
    /\ i_query = NoQuery

RIdle ==
    /\ r_pc = "idle" /\ r_file = <<>> /\ r_pos = 0 /\ r_buf = <<>> /\ r_start_no = 0
    /\ r_header = NoHeader /\ r_entities = <<>>

XIdle == KIdle /\ FIdle /\ QIdle /\ EIdle /\ NIdle /\ TIdle

CurveInit == CInit /\ SIdle /\ IIdle /\ RIdle /\ XIdle

CurveNext == DecodeCurve \/ EvalCurve \/ SampleCurve

SpecCurve == CurveInit /\ [][CurveNext]_vars

SurfInit == CIdle /\ SInit /\ IIdle /\ RIdle /\ XIdle

SurfNext == DecodeSurf \/ EvalSurf

SpecSurf == SurfInit /\ [][SurfNext]_vars

ReaderInit == CIdle /\ SIdle /\ IIdle /\ RInit /\ XIdle

ReaderNext == ReadRecord \/ ReadEOF

SpecReader == ReaderInit /\ [][ReaderNext]_vars

IndexInit == CIdle /\ SIdle /\ IInit /\ RIdle /\ XIdle

IndexNext == IndexEntity \/ IndexReturn \/ GetEntity \/ ListNames

SpecIndex == IndexInit /\ [][IndexNext]_vars

ConsInit == CIdle /\ SIdle /\ IIdle /\ RIdle /\ KInit /\ FIdle /\ QIdle /\ EIdle /\ NIdle /\ TIdle

ConsNext == DecodeCons

SpecCons == ConsInit /\ [][ConsNext]_vars

FaceInit == CIdle /\ SIdle /\ IIdle /\ RIdle /\ KIdle /\ FInit /\ QIdle /\ EIdle /\ NIdle /\ TIdle

FaceNext == FaceBegin \/ FaceCount \/ FaceTriple \/ FaceEndFor

SpecFace == FaceInit /\ [][FaceNext]_vars

\* decode_face_entity is one sequential call: it goes on until it returns or
\* raises.
SpecFaceLive == FaceInit /\ [][FaceNext]_vars /\ WF_vars(FaceNext)

\* Decode one SURF, then sample it (directly, or from plot_entity).
SampleInit ==
    /\ CIdle /\ IIdle /\ RIdle /\ XIdle
    /\ s_pc = "input" /\ s_params \in SampleInputs
    /\ s_surf = NoSurf /\ s_err = "" /\ s_op = NoSurfOp

SampleNext == DecodeSurf \/ SampleSurf \/ PlotEntitySurf

SpecSample == SampleInit /\ [][SampleNext]_vars

CheckInit == CIdle /\ SIdle /\ IIdle /\ RIdle /\ KIdle /\ FIdle /\ QInit /\ EIdle /\ NIdle /\ TIdle

CheckNext == CheckDecode \/ CheckSeamV \/ CheckSeamsU \/ CheckSeamU \/ CheckReturn

SpecCheck == CheckInit /\ [][CheckNext]_vars

ExportInit == CIdle /\ SIdle /\ IIdle /\ RIdle /\ KIdle /\ FIdle /\ QIdle /\ EInit /\ NIdle /\ TIdle

ExportNext == ExportRead \/ ExportWrite \/ ExportReRead

SpecExport == ExportInit /\ [][ExportNext]_vars

InsertInit ==
    CIdle /\ SIdle /\ IIdle /\ RIdle /\ KIdle /\ FIdle /\ QIdle /\ EIdle /\ NInit /\ TIdle

InsertNext == ReadPlain \/ ReadEdited

SpecInsert == InsertInit /\ [][InsertNext]_vars

TokensInit ==
    CIdle /\ SIdle /\ IIdle /\ RIdle /\ KIdle /\ FIdle /\ QIdle /\ EIdle /\ NIdle /\ TInit

TokensNext == Tokenize

SpecTokens == TokensInit /\ [][TokensNext]_vars

----------------------------------------------------------------------------
(* The error kinds the documentation names, by the message of the raise. *)

ErrKind(msg) ==
    CASE msg \in {"CURVE has no parameters", "CURVE missing global parameters",
                  "CURVE missing segment block", "CURVE segment coefficients incomplete",
                  "SURF has insufficient parameters", "SURF missing parameter vectors",
                  "SURF missing patch block", "SURF patch coefficients incomplete"}
           -> "MissingParameters"
      [] msg \in {"CURVE segment count must be positive",
                  "SURF patch counts must be positive"} -> "InvalidCount"
      [] msg \in {"CURVE segment order must be positive",
                  "SURF patch orders must be positive"} -> "InvalidOrder"
      [] msg \in {"CURVE coefficients must be numeric",
                  "SURF coefficients must be numeric"} -> "NonNumericCoefficient"
      [] msg \in {"CURVE global parameter interval has zero length",
                  "SURF parameter intervals have zero length"} -> "DegenerateInterval"
      [] OTHER -> msg

----------------------------------------------------------------------------
(* Claims about sample_curve and eval_curve_at_t. *)

Sampled == c_pc = "done" /\ c_op.op = "sample"
Evaluated == c_pc = "done" /\ c_op.op = "eval"

\* C2: with density m >= 2 per segment, sample_curve returns n*m
\* points with include_knots and n*m - (n-1) points without.
C2_CountAsStated ==
    (Sampled /\ c_op.sps >= 2) =>
        Len(c_op.pts) = IF c_op.knots THEN c_curve.n * c_op.sps
                        ELSE c_curve.n * c_op.sps - (c_curve.n - 1)

\* C5: for t strictly below breakpoints[0], eval_curve_at_t(curve, t) is the
\* point eval_curve_at_t(curve, breakpoints[0]).
C5_ClampBelow ==
    (Evaluated /\ RLt(c_op.t, Val(c_curve.pars[1]))) =>
        c_op.pts[1] = eval_curve_at_t(c_curve, Val(c_curve.pars[1]))

\* A two-segment curve evaluated below its first breakpoint, on a segment
\* that is not constant (its value at t would differ without the clamp).
C5_Witness ==
    /\ Evaluated /\ c_curve.n = 2
    /\ RLt(c_op.t, Val(c_curve.pars[1]))
    /\ c_curve.segments[1].order = 2
    /\ c_curve.segments[1].ax[2] # Num(0, 1)

----------------------------------------------------------------------------
(* Claims about _decode_curve_params.  The conditions below are read off   *)
(* the token list alone: n = int(params[0]), the breakpoints params[1..n+1]*)
(* and, for segment k, the block starting at SegStart(params, n, k).       *)

CountOf(params) == Trunc(Val(params[1]))
ValidCount(params) == Len(params) >= 1 /\ IsNumeric(params[1]) /\ CountOf(params) >= 1
BpTruncated(params) == Len(params) < CountOf(params) + 2

\* 0-based position of the order token of segment k, or -1 when an earlier
\* block has no usable order (absent, not a number, or <= 0).
RECURSIVE SegStart(_, _, _)
SegStart(params, n, k) ==
    IF k = 0 THEN n + 2
    ELSE LET p == SegStart(params, n, k - 1)
         IN  IF p < 0 \/ p >= Len(params) THEN -1
             ELSE IF ~IsNumeric(At(params, p)) \/ Trunc(Val(At(params, p))) <= 0 THEN -1
             ELSE p + 1 + 3 * Trunc(Val(At(params, p)))

HasBlock(params, n, k) == SegStart(params, n, k) >= 0
OrderPresent(params, n, k) == HasBlock(params, n, k) /\ SegStart(params, n, k) < Len(params)
OrderTok(params, n, k) == At(params, SegStart(params, n, k))
OrderOk(params, n, k) ==
    /\ OrderPresent(params, n, k)
    /\ IsNumeric(OrderTok(params, n, k))
    /\ Trunc(Val(OrderTok(params, n, k))) >= 1
SegOrder(params, n, k) == Trunc(Val(OrderTok(params, n, k)))

SegTruncated(params, n, k) ==
    /\ HasBlock(params, n, k)
    /\ \/ ~OrderPresent(params, n, k)
       \/ /\ OrderOk(params, n, k)
          /\ SegStart(params, n, k) + 1 + 3 * SegOrder(params, n, k) > Len(params)
SegBadOrder(params, n, k) ==
    /\ OrderPresent(params, n, k)
    /\ IsNumeric(OrderTok(params, n, k))
    /\ Trunc(Val(OrderTok(params, n, k))) <= 0
SegStrOrder(params, n, k) ==
    OrderPresent(params, n, k) /\ ~IsNumeric(OrderTok(params, n, k))
SegNonNumeric(params, n, k) ==
    /\ OrderOk(params, n, k)
    /\ \E q \in (SegStart(params, n, k) + 1)..(SegStart(params, n, k) + 3 * SegOrder(params, n, k)) :
          q < Len(params) /\ ~IsNumeric(At(params, q))
SegStrBreakpoint(params, n, k) ==
    ~IsNumeric(At(params, 1 + k)) \/ ~IsNumeric(At(params, 2 + k))
SegDegenerate(params, n, k) ==
    /\ ~SegStrBreakpoint(params, n, k)
    /\ Val(At(params, 1 + k)) = Val(At(params, 2 + k))

SegDefect(params, n, k) ==
    \/ SegTruncated(params, n, k) \/ SegBadOrder(params, n, k) \/ SegStrOrder(params, n, k)
    \/ SegNonNumeric(params, n, k) \/ SegStrBreakpoint(params, n, k)
    \/ SegDegenerate(params, n, k)

Failed == c_pc = "failed"
Decoded == c_pc \in {"decoded", "done"}
FailedWith(kind) == Failed /\ ErrKind(c_err) = kind

\* C9 as stated: each condition alone decides the error, wherever it occurs.
C9_ErrorsAsStated ==
    (c_pc # "input" /\ ValidCount(c_params)) =>
      LET n == CountOf(c_params)
          segs == 0..(n - 1)
      IN  /\ (BpTruncated(c_params) \/ (~BpTruncated(c_params) /\ \E k \in segs : SegTruncated(c_params, n, k)))
                => FailedWith("MissingParameters")
          /\ (~BpTruncated(c_params) /\ \E k \in segs : SegBadOrder(c_params, n, k))
                => FailedWith("InvalidOrder")
          /\ (~BpTruncated(c_params) /\ \E k \in segs : SegDegenerate(c_params, n, k))
                => FailedWith("DegenerateInterval")
          /\ (~BpTruncated(c_params) /\ \E k \in segs : SegNonNumeric(c_params, n, k))
                => FailedWith("NonNumericCoefficient")

\* C9 amended: the decoder fails, returning no curve, whenever the breakpoints
\* or a segment block are truncated, an order is <= 0, a breakpoint pair is
\* equal or a coefficient is not a number.  The error is the one of the first
\* segment, in order, that has a defect: MissingParameters when its block is
\* truncated, InvalidOrder when its order is <= 0, NonNumericCoefficient when
\* its block is complete and holds a non-numeric coefficient, and
\* DegenerateInterval when its breakpoint pair is equal and it has no other
\* defect.  Truncated breakpoints give MissingParameters before any segment.
C9_FirstDefectDecides ==
    (c_pc # "input" /\ ValidCount(c_params)) =>
      LET n == CountOf(c_params)
          segs == 0..(n - 1)
      IN  IF BpTruncated(c_params) THEN FailedWith("MissingParameters") /\ c_curve = NoCurve
          ELSE
            /\ (\E k \in segs : SegDefect(c_params, n, k)) => (Failed /\ c_curve = NoCurve)
            /\ \A k \in segs :
                 (SegDefect(c_params, n, k) /\ \A h \in 0..(k - 1) : ~SegDefect(c_params, n, h)) =>
                   /\ SegTruncated(c_params, n, k) => FailedWith("MissingParameters")
                   /\ SegBadOrder(c_params, n, k) => FailedWith("InvalidOrder")
                   /\ (SegNonNumeric(c_params, n, k) /\ ~SegTruncated(c_params, n, k))
                        => FailedWith("NonNumericCoefficient")
                   /\ (SegDegenerate(c_params, n, k) /\ ~SegTruncated(c_params, n, k)
                         /\ ~SegBadOrder(c_params, n, k) /\ ~SegStrOrder(c_params, n, k)
                         /\ ~SegNonNumeric(c_params, n, k))
                        => FailedWith("DegenerateInterval")

\* The second segment is the first with a defect, an order of 0, after a
\* first segment that decodes.
C9_Witness ==
    /\ FailedWith("InvalidOrder")
    /\ ValidCount(c_params) /\ CountOf(c_params) = 2 /\ ~BpTruncated(c_params)
    /\ ~SegDefect(c_params, 2, 0)
    /\ SegBadOrder(c_params, 2, 1)

\* C10: every returned curve has n >= 1, n+1 breakpoints, n segments, and per
\* segment k: K >= 1, K numeric coefficients for each of x, y, z,
\* t0 = breakpoints[k], t1 = breakpoints[k+1], t1 # t0.
C10_CurveWellFormed ==
    Decoded =>
        /\ c_curve.n >= 1
        /\ Len(c_curve.pars) = c_curve.n + 1
        /\ Len(c_curve.segments) = c_curve.n
        /\ \A k \in 0..(c_curve.n - 1) :
             LET seg == At(c_curve.segments, k)
             IN  /\ seg.order >= 1
                 /\ Len(seg.ax) = seg.order /\ AllNumeric(seg.ax)
                 /\ Len(seg.ay) = seg.order /\ AllNumeric(seg.ay)
                 /\ Len(seg.az) = seg.order /\ AllNumeric(seg.az)
                 /\ IsNumeric(At(c_curve.pars, k)) /\ seg.t0 = Val(At(c_curve.pars, k))
                 /\ IsNumeric(At(c_curve.pars, k + 1)) /\ seg.t1 = Val(At(c_curve.pars, k + 1))
                 /\ seg.t1 # seg.t0

\* A decoded two-segment curve with segments of different orders and
\* breakpoints that are not increasing.
C10_Witness ==
    /\ c_pc = "decoded" /\ c_curve.n = 2
    /\ c_curve.segments[1].order = 2 /\ c_curve.segments[2].order = 1
    /\ RLt(c_curve.segments[2].t1, c_curve.segments[2].t0)

----------------------------------------------------------------------------
(* Claims about _decode_surf_params.  The conditions are read off the      *)
(* token list alone: nps = int(params[0]), npt = int(params[1]), the       *)
(* s-breakpoints params[2..nps+2], the t-breakpoints after them and, for   *)
(* patch p, the block starting at PatchStart(params, p).                   *)

SFailed == s_pc = "failed"
SDecoded == s_pc \in {"decoded", "done"}
SEvaluated == s_pc = "done" /\ s_op.op = "eval"
SFailedWith(kind) == SFailed /\ ErrKind(s_err) = kind

CountsNumeric(params) == Len(params) >= 2 /\ IsNumeric(params[1]) /\ IsNumeric(params[2])
Nps(params) == Trunc(Val(params[1]))
Npt(params) == Trunc(Val(params[2]))
SurfNeed(params) == 2 + (Nps(params) + 1) + (Npt(params) + 1)
HasBreakpoints(params) ==
    /\ CountsNumeric(params) /\ Nps(params) >= 1 /\ Npt(params) >= 1
    /\ Len(params) >= SurfNeed(params)
SBreak(params, q) == At(params, 2 + q)
TBreak(params, q) == At(params, 2 + (Nps(params) + 1) + q)
EqualNumbers(a, b) == IsNumeric(a) /\ IsNumeric(b) /\ Val(a) = Val(b)
EqualSPair(params) ==
    \E q \in 0..(Nps(params) - 1) : EqualNumbers(SBreak(params, q), SBreak(params, q + 1))
EqualTPair(params) ==
    \E q \in 0..(Npt(params) - 1) : EqualNumbers(TBreak(params, q), TBreak(params, q + 1))

\* 0-based position of the first order token of patch p, or -1 when an
\* earlier block has no usable pair of orders.
RECURSIVE PatchStart(_, _)
PatchStart(params, p) ==
    IF p = 0 THEN SurfNeed(params)
    ELSE LET b == PatchStart(params, p - 1)
         IN  IF b < 0 \/ b + 1 >= Len(params) THEN -1
             ELSE IF ~IsNumeric(At(params, b)) \/ ~IsNumeric(At(params, b + 1)) THEN -1
             ELSE IF Trunc(Val(At(params, b))) <= 0 \/ Trunc(Val(At(params, b + 1))) <= 0 THEN -1
             ELSE b + 2 + 3 * Trunc(Val(At(params, b))) * Trunc(Val(At(params, b + 1)))

\* Patch p's block is complete: two positive orders and 3*Ku*Kv numbers.
PatchBlockOk(params, p) ==
    LET b == PatchStart(params, p)
    IN  /\ b >= 0 /\ b + 1 < Len(params)
        /\ IsNumeric(At(params, b)) /\ IsNumeric(At(params, b + 1))
        /\ Trunc(Val(At(params, b))) >= 1 /\ Trunc(Val(At(params, b + 1))) >= 1
        /\ LET e == b + 2 + 3 * Trunc(Val(At(params, b))) * Trunc(Val(At(params, b + 1)))
           IN  e <= Len(params) /\ \A q \in (b + 2)..(e - 1) : IsNumeric(At(params, q))

PatchBreaksNumeric(params, p) ==
    LET ps == p \div Npt(params)
        pt == p % Npt(params)
    IN  /\ IsNumeric(SBreak(params, ps)) /\ IsNumeric(SBreak(params, ps + 1))
        /\ IsNumeric(TBreak(params, pt)) /\ IsNumeric(TBreak(params, pt + 1))

PatchDegenerate(params, p) ==
    LET ps == p \div Npt(params)
        pt == p % Npt(params)
    IN  /\ PatchBreaksNumeric(params, p)
        /\ \/ Val(SBreak(params, ps)) = Val(SBreak(params, ps + 1))
           \/ Val(TBreak(params, pt)) = Val(TBreak(params, pt + 1))

----------------------------------------------------------------------------
(* Claims about eval_surf_at_uv. *)

\* The patch is of order 2x2 and its coefficients are those of
\* (x, y, z) = (s, t, 0) over the patch's own interval.
IdentityPatch(patch) ==
    /\ patch.order_u = 2 /\ patch.order_v = 2
    /\ patch.coeffs_x = <<<<NumR(patch.u0), Num(0, 1)>>,
                          <<NumR(RSub(patch.u1, patch.u0)), Num(0, 1)>>>>
    /\ patch.coeffs_y = <<<<NumR(patch.v0), NumR(RSub(patch.v1, patch.v0))>>,
                          <<Num(0, 1), Num(0, 1)>>>>
    /\ patch.coeffs_z = <<<<Num(0, 1), Num(0, 1)>>, <<Num(0, 1), Num(0, 1)>>>>

IdentitySurf21 ==
    /\ SDecoded /\ s_surf.nu = 2 /\ s_surf.nv = 1
    /\ \A q \in 1..Len(s_surf.patches) : IdentityPatch(s_surf.patches[q])

\* The local t-fraction of the (clamped) global t in the single t-interval.
LocalT(surf, v) ==
    RDiv(RSub(ClampSurf(surf.v_pars, v), Val(surf.v_pars[1])),
         RSub(Val(surf.v_pars[2]), Val(surf.v_pars[1])))

SeamFromPatch0(surf, v) == PatchPoint(surf.patches[1], RInt(1), LocalT(surf, v))
SeamFromPatch1(surf, v) == PatchPoint(surf.patches[2], RInt(0), LocalT(surf, v))
AtSeam == SEvaluated /\ IdentitySurf21 /\ s_op.u = Val(s_surf.u_pars[2])
IncreasingS(surf) ==
    \A q \in 1..(Len(surf.u_pars) - 1) : RLt(Val(surf.u_pars[q]), Val(surf.u_pars[q + 1]))

\* C6 as stated: on the identity SURF with nps=2, npt=1 the seam point is the
\* same from patch 0 at s-fraction 1 and from patch 1 at s-fraction 0, and
\* eval_surf_at_uv at s = s_breakpoints[1] returns it for every t.
C6_SeamAsStated ==
    AtSeam =>
      /\ SeamFromPatch0(s_surf, s_op.v) = SeamFromPatch1(s_surf, s_op.v)
      /\ s_op.pts[1] = SeamFromPatch0(s_surf, s_op.v)

\* C6 amended: on the identity SURF with nps=2, npt=1 the seam point is the
\* same from patch 0 at s-fraction 1 and from patch 1 at s-fraction 0; when
\* the s-breakpoints are strictly increasing, eval_surf_at_uv at
\* s = s_breakpoints[1] returns that point for every t.
C6_IdentitySeam ==
    AtSeam =>
      /\ SeamFromPatch0(s_surf, s_op.v) = SeamFromPatch1(s_surf, s_op.v)
      /\ IncreasingS(s_surf) => s_op.pts[1] = SeamFromPatch0(s_surf, s_op.v)

\* Evaluation on the seam s = 3 of the identity SURF over [1,3,5] x [0,1],
\* at a t strictly inside the t-range.
C6_Witness ==
    /\ AtSeam /\ IncreasingS(s_surf)
    /\ Val(s_surf.u_pars[1]) = RInt(1) /\ s_op.u = RInt(3)
    /\ s_op.v = Rat(1, 2) /\ LocalT(s_surf, s_op.v) = Rat(1, 2)
    /\ s_op.pts[1] = <<RInt(3), Rat(1, 2), RInt(0)>>

----------------------------------------------------------------------------
(* Reader claims. *)

ReadDone == r_pc = "done"

\* The count N written on a HEADER statement line, read from that line alone.
DeclaredCount(line) == HeaderCount(_stmt_parse(DataOf(line)).rest)

IsHeaderLine(line) ==
    \E m \in {_stmt_parse(DataOf(line))} : m.ok /\ m.word = HEADER

HeaderSpan == (r_header.lineno_start + 1)..(r_header.lineno_start + r_header.n_lines)

\* C1 (as stated): when read_vdafs has read a file with a statement
\* X = HEADER / N whose N following lines exist, the header holds exactly
\* those N raw lines, verbatim, and no entity comes from any of them: every
\* entity's lines lie outside the N lines after the HEADER statement line.
C1_HeaderLinesNotEntities ==
    (/\ ReadDone /\ r_header.present
     /\ IsHeaderLine(r_file[r_header.lineno_start])
     /\ r_header.n_lines = DeclaredCount(r_file[r_header.lineno_start])
     /\ r_header.n_lines >= 1
     /\ r_header.lineno_start + r_header.n_lines <= Len(r_file))
    => /\ r_header.lines = SubSeq(r_file, r_header.lineno_start + 1,
                                  r_header.lineno_start + r_header.n_lines)
       /\ \A k \in 1..Len(r_entities) :
            \A ln \in r_entities[k].lineno_start..r_entities[k].lineno_end :
                ln \notin HeaderSpan

\* A line whose significant columns, trimmed, are END.
EndLine(line) == Strip(DataOf(line)) = END

HasEnd == \E k \in 1..Len(r_file) : EndLine(r_file[k])

FirstEnd == SetMin({k \in 1..Len(r_file) : EndLine(r_file[k])})

\* C8: in a file with an END line the reader never goes past the first one;
\* when it has returned, every entity's lines lie before that END line, and
\* the entities are those of the file cut off before the END line, the
\* statement open at the END line included.
C8_EndStopsReading ==
    HasEnd =>
      /\ r_pos <= FirstEnd
      /\ \A k \in 1..Len(r_entities) : r_entities[k].lineno_end < FirstEnd
      /\ ReadDone =>
           r_entities = read_vdafs(SubSeq(r_file, 1, FirstEnd - 1)).entities

\* An END line closed an open statement that became the last entity, and a
\* statement start follows the END line.
C8_Witness ==
    /\ ReadDone /\ HasEnd
    /\ Len(r_entities) >= 1
    /\ r_entities[Len(r_entities)].lineno_end = FirstEnd - 1
    /\ \E k \in (FirstEnd + 1)..Len(r_file) : _stmt_start(DataOf(r_file[k]))

----------------------------------------------------------------------------
(* Index claims. *)

Carriers(name) == {k \in 1..Len(i_model) : i_model[k].name = name}

GetAnswered == i_pc = "built" /\ i_query.op = "get"

\* C7: after build_index, get_entity returns for a name carried by at least
\* one entity the last entity of the model with that name, and none for a
\* name that no entity carries.
C7_LastWriteWins ==
    GetAnswered =>
      IF Carriers(i_query.arg) = {}
        THEN ~i_query.found
        ELSE /\ i_query.found
             /\ i_query.entity = i_model[SetMax(Carriers(i_query.arg))]

\* A lookup of a name that two entities of different commands carry.
C7_Witness ==
    /\ GetAnswered /\ i_query.found
    /\ \E a, b \in Carriers(i_query.arg) :
         a < b /\ i_model[a].command # i_model[b].command

----------------------------------------------------------------------------
(* Claims about the surfaces _decode_surf_params returns. *)

\* Ku rows of Kv numeric tokens: Ku * Kv coefficients.
MatrixShape(m, Ku, Kv) ==
    /\ Len(m) = Ku
    /\ \A r \in 1..Len(m) : Len(m[r]) = Kv /\ AllNumeric(m[r])

PatchWellFormed(surf, ps, pt) ==
    LET patch == surf.patches[ps * surf.nv + pt + 1]
    IN  /\ patch.u_idx = ps /\ patch.v_idx = pt
        /\ patch.u0 = Val(At(surf.u_pars, ps)) /\ patch.u1 = Val(At(surf.u_pars, ps + 1))
        /\ patch.v0 = Val(At(surf.v_pars, pt)) /\ patch.v1 = Val(At(surf.v_pars, pt + 1))
        /\ patch.u1 # patch.u0 /\ patch.v1 # patch.v0
        /\ patch.order_u >= 1 /\ patch.order_v >= 1
        /\ MatrixShape(patch.coeffs_x, patch.order_u, patch.order_v)
        /\ MatrixShape(patch.coeffs_y, patch.order_u, patch.order_v)
        /\ MatrixShape(patch.coeffs_z, patch.order_u, patch.order_v)

\* C11: every surface _decode_surf_params returns has nps, npt >= 1, nps+1
\* s-breakpoints and npt+1 t-breakpoints, all numbers, and nps*npt patches
\* in s-major order: the patch at list position ps*npt+pt carries the
\* interval [s[ps], s[ps+1]] x [t[pt], t[pt+1]], of non-zero length in both
\* directions, orders jor, kor >= 1 and jor*kor numeric coefficients for
\* each of x, y and z.
C11_SurfWellFormed ==
    SDecoded =>
      /\ s_surf.nu >= 1 /\ s_surf.nv >= 1
      /\ Len(s_surf.u_pars) = s_surf.nu + 1 /\ AllNumeric(s_surf.u_pars)
      /\ Len(s_surf.v_pars) = s_surf.nv + 1 /\ AllNumeric(s_surf.v_pars)
      /\ Len(s_surf.patches) = s_surf.nu * s_surf.nv
      /\ \A ps \in 0..(s_surf.nu - 1) : \A pt \in 0..(s_surf.nv - 1) :
           PatchWellFormed(s_surf, ps, pt)

\* A decoded surface of 2x2 patches whose patches differ in their orders.
C11_Witness ==
    /\ SDecoded /\ s_surf.nu = 2 /\ s_surf.nv = 2
    /\ \E a, b \in 1..4 : s_surf.patches[a].order_u # s_surf.patches[b].order_u
    /\ \E a \in 1..4 : s_surf.patches[a].order_u # s_surf.patches[a].order_v

----------------------------------------------------------------------------
(* Claims about extra tokens before the patch data of a SURF. *)

\* The token list without the token that follows the breakpoints.
Unpadded(params) ==
    SubSeq(params, 1, SurfNeed(params)) \o SubSeq(params, SurfNeed(params) + 2, Len(params))

\* The token after the breakpoints is a number that is no valid order, and
\* the list without it decodes.
IsPaddedSurf(params) ==
    /\ HasBreakpoints(params) /\ Len(params) > SurfNeed(params)
    /\ IsNumeric(params[SurfNeed(params) + 1])
    /\ Trunc(Val(params[SurfNeed(params) + 1])) <= 0
    /\ _decode_surf_params(Unpadded(params)).ok

\* C12: a SURF carrying an extra flag token between its breakpoints and its
\* patch data decodes, and to the same patches as the same SURF without the
\* flag: the decoder skips the token that does not look like a positive order.
C12_PaddingSkipped ==
    (s_pc # "input" /\ IsPaddedSurf(s_params)) =>
        /\ SDecoded
        /\ s_surf.patches = _decode_surf_params(Unpadded(s_params)).surf.patches

\* The decoder has run on a padded SURF of two patches.
C12_Padded ==
    /\ s_pc # "input" /\ IsPaddedSurf(s_params)
    /\ Nps(s_params) * Npt(s_params) = 2

----------------------------------------------------------------------------
(* CONS decoding *)

ConsDone == k_pc # "input" /\ k_pc # "idle"

\* Two letters a, b followed by digits.
IsRef(tok, a, b) ==
    /\ tok.k = "str"
    /\ Len(tok.s) >= 3
    /\ tok.s[1] = a
    /\ tok.s[2] = b
    /\ \A q \in 3..Len(tok.s) : tok.s[q] \in Digit

ValidRefs(entity) ==
    /\ entity.command = CONS
    /\ Len(entity.params) >= 2
    /\ IsRef(entity.params[1], "S", "R")
    /\ IsRef(entity.params[2], "C", "V")

\* C13: for a CONS entity whose first two tokens are a valid SR and CV
\* reference, decode_cons_entity never fails, whatever tokens follow: it
\* returns the CONS with its surf and curve references, and with pc = none
\* when nothing follows the references.
C13_NeverFails ==
    (ConsDone /\ ValidRefs(k_entity)) =>
        /\ k_pc = "decoded"
        /\ k_cons.surf = k_entity.params[1].s
        /\ k_cons.curve = k_entity.params[2].s
        /\ (Len(k_entity.params) = 2 => ~k_cons.has_pc)

\* A CONS with valid references and a non-numeric token after them was decoded.
C13_Malformed ==
    /\ ConsDone
    /\ ValidRefs(k_entity)
    /\ \E p \in 3..Len(k_entity.params) : k_entity.params[p].k = "str"

----------------------------------------------------------------------------
(* FACE decoding *)

IsPrefix(a, b) == Len(a) <= Len(b) /\ SubSeq(b, 1, Len(a)) = a

\* The for loop is about to read a whole triple whose first element is not
\* a CONS reference.
AtNonConsTriple ==
    /\ f_pc = "for"
    /\ f_i + 2 < Len(f_entity.params)
    /\ ~IsRef(At(f_entity.params, f_i), "C", "N")

----------------------------------------------------------------------------
(* Seam continuity *)

RECURSIVE RSumTo(_, _)
\* f[1] + ... + f[n] of a sequence of coefficient tokens
RSumTo(f, n) == IF n = 0 THEN RInt(0) ELSE RAdd(RSumTo(f, n - 1), Val(f[n]))

Column(m, j) == [i \in 1..Len(m) |-> m[i][j]]

\* The coefficients of the edge polynomial of one coordinate: along v the
\* edge v = at as a polynomial in u, along u the edge u = at as a polynomial
\* in v, for at = 0 or 1.
EdgeCoefs(m, dir, at) ==
    IF dir = "v"
    THEN [i \in 1..Len(m) |-> IF at = 0 THEN Val(m[i][1]) ELSE RSumTo(m[i], Len(m[i]))]
    ELSE [j \in 1..Len(m[1]) |-> IF at = 0 THEN Val(m[1][j])
                                            ELSE RSumTo(Column(m, j), Len(m))]

\* The edge at fraction 1 of pA and the edge at fraction 0 of pB are the same
\* polynomial curve.
AgreeOnEdge(dir, pA, pB) ==
    /\ EdgeCoefs(pA.coeffs_x, dir, 1) = EdgeCoefs(pB.coeffs_x, dir, 0)
    /\ EdgeCoefs(pA.coeffs_y, dir, 1) = EdgeCoefs(pB.coeffs_y, dir, 0)
    /\ EdgeCoefs(pA.coeffs_z, dir, 1) = EdgeCoefs(pB.coeffs_z, dir, 0)

\* c(u, 1 - v) of a matrix that is at most linear in v.
FlipVMatrix(m) ==
    [i \in 1..Len(m) |->
        IF Len(m[i]) = 2
        THEN <<NumR(RAdd(Val(m[i][1]), Val(m[i][2]))), NumR(RSub(RInt(0), Val(m[i][2])))>>
        ELSE m[i]]

FlipV(p) ==
    [p EXCEPT !.coeffs_x = FlipVMatrix(p.coeffs_x), !.coeffs_y = FlipVMatrix(p.coeffs_y),
              !.coeffs_z = FlipVMatrix(p.coeffs_z)]

PatchAt(surf, ui, vj) ==
    CHOOSE p \in {surf.patches[q] : q \in 1..Len(surf.patches)} : p.u_idx = ui /\ p.v_idx = vj

\* The two index-adjacent patches of a reported seam.
SeamA(surf, r) == IF r.dir = "v" THEN PatchAt(surf, r.a, r.b) ELSE PatchAt(surf, r.b, r.a)
SeamB(surf, r) == IF r.dir = "v" THEN PatchAt(surf, r.a, r.b + 1) ELSE PatchAt(surf, r.b + 1, r.a)

\* A squared deviation below (1/t)^2, and one above it.
BelowSq(r, t) == r[1] = 0 \/ ((r[2] - 1) \div r[1]) \div t >= t
AboveSq(r, t) == r[1] > 0 /\ ~((r[2] \div r[1]) \div t >= t)

SeamAgrees(surf, r) == AgreeOnEdge(r.dir, SeamA(surf, r), SeamB(surf, r))
SeamFlipped(surf, r) ==
    \/ AgreeOnEdge(r.dir, SeamA(surf, r), FlipV(SeamB(surf, r)))
    \/ AgreeOnEdge(r.dir, FlipV(SeamA(surf, r)), SeamB(surf, r))

\* C15: for every seam the checker reports, the maximum deviation is below
\* 1e-9 when the two index-adjacent patches agree on the shared edge (the
\* edge at fraction 1 of the one, the edge at fraction 0 of the other), and
\* above 1e-3 when they agree only after the v axis of one of them is
\* reversed.
C15_SeamDeviation ==
    \A q \in 1..Len(q_seams) :
        /\ SeamAgrees(q_surf, q_seams[q]) => BelowSq(q_seams[q].max, 1000000000)
        /\ SeamFlipped(q_surf, q_seams[q]) => AboveSq(q_seams[q].max, 1000)

\* The check of a surface is done with a seam that agrees and a seam with a
\* patch whose v axis is reversed.
C15_Witness ==
    /\ q_pc = "done"
    /\ \E q \in 1..Len(q_seams) : SeamAgrees(q_surf, q_seams[q])
    /\ \E q \in 1..Len(q_seams) :
         SeamFlipped(q_surf, q_seams[q]) /\ ~SeamAgrees(q_surf, q_seams[q])

\* The stepwise decoder ends where decode_face_entity, taken as a function, does.
FaceStepsAgree ==
    /\ f_pc = "done" =>
         /\ decode_face_entity(f_entity).ok
         /\ decode_face_entity(f_entity).loops = f_loops
    /\ f_pc = "failed" =>
         /\ ~decode_face_entity(f_entity).ok
         /\ decode_face_entity(f_entity).err = f_err

----------------------------------------------------------------------------
(* Export and re-read *)

SameEntity(a, b) ==
    /\ a.name = b.name
    /\ a.command = b.command
    /\ a.params = b.params
    /\ a.raw = b.raw

\* The entities write_face_file wrote: those of the exported names that the
\* index resolves.
Written ==
    {build_index(e_model.entities).by_name[e_ordered[q]] :
        q \in {p \in 1..Len(e_ordered) :
                 e_ordered[p] \in DOMAIN build_index(e_model.entities).by_name}}

\* C16: for every entity e that write_face_file writes, the 72-column chunks
\* of e's raw text concatenate back to it, and the re-read of the exported
\* file holds an entity with the name, command, params and raw text of e.
C16_RoundTrip ==
    e_pc = "reread" =>
        \A e \in Written :
            /\ Concat(_wrap_72(e.raw)) = e.raw
            /\ \E q \in 1..Len(e_back.entities) : SameEntity(e_back.entities[q], e)

\* An entity whose raw text is longer than one line was exported and re-read.
C16_LongRaw == e_pc = "reread" /\ \E e \in Written : Len(e.raw) > DataCols

----------------------------------------------------------------------------
(* Statements that do not parse *)

IsStart(line) == _stmt_start(DataOf(line))
IsSkipped(line) == Strip(DataOf(line)) = <<>> \/ _is_comment(DataOf(line))

\* The last line of the statement that starts at line ln: the line before
\* the next statement start or END line, or the last line of the file.
StmtLast(file, ln) ==
    SetMax({j \in ln..Len(file) :
              \A k \in (ln + 1)..j : ~IsStart(file[k]) /\ ~IsEndLine(DataOf(file[k]))})

RECURSIVE TextOf(_, _, _)
\* The coalesced text of the lines a..b: their data columns, without the
\* blank and comment lines.
TextOf(file, a, b) ==
    IF a > b THEN <<>>
    ELSE (IF IsSkipped(file[a]) THEN <<>> ELSE DataOf(file[a])) \o TextOf(file, a + 1, b)

\* Line ln starts a statement whose coalesced text does not parse.
UnparsedAt(file, ln) ==
    /\ IsStart(file[ln])
    /\ ~_stmt_parse(TextOf(file, ln, StmtLast(file, ln))).ok

Without(file, a, b) == SubSeq(file, 1, a - 1) \o SubSeq(file, b + 1, Len(file))

\* The entities of a file from which cnt lines were taken out at line ln, with
\* the line numbers they have in the whole file.
Renumbered(entities, ln, cnt) ==
    [q \in 1..Len(entities) |->
        IF entities[q].lineno_start < ln THEN entities[q]
        ELSE [entities[q] EXCEPT !.lineno_start = @ + cnt, !.lineno_end = @ + cnt]]

----------------------------------------------------------------------------
(* Listing by type *)

ListAnswered == i_pc = "built" /\ i_query.op = "list"

RECURSIVE NamesOfCommand(_, _)
\* The names of the entities with command cmd, in the order of the model.
NamesOfCommand(entities, cmd) ==
    IF entities = <<>> THEN <<>>
    ELSE (IF entities[1].command = cmd THEN <<entities[1].name>> ELSE <<>>)
         \o NamesOfCommand(Tail(entities), cmd)

\* C18 (as stated): list_names_by_type(index, command) returns, in file
\* order, the names of the entities whose command is that command, and the
\* empty sequence for a command no entity has.
C18_ListAsStated ==
    ListAnswered => i_query.names = NamesOfCommand(i_model, i_query.arg)

\* C18: list_names_by_type(index, command) returns, in file order, the names
\* of the entities whose command is the upper-cased argument, the empty
\* sequence when there is none; and once the index is built, no query
\* changes the index or the model.
C18_ListInFileOrder ==
    /\ [](ListAnswered => i_query.names = NamesOfCommand(i_model, Upper(i_query.arg)))
    /\ [][i_pc = "built" => (i_index' = i_index /\ i_model' = i_model)]_vars

\* A listing of two different names of one command, from a model that also
\* holds an entity of another command.
C18_Witness ==
    /\ ListAnswered
    /\ Len(i_query.names) >= 2
    /\ i_query.names[1] # i_query.names[2]
    /\ \E k \in 1..Len(i_model) : i_model[k].command # Upper(i_query.arg)

----------------------------------------------------------------------------
(* Comment and blank lines *)

\* The name, command and params of each entity, in order.
RECURSIVE NameCommandParams(_)
NameCommandParams(entities) ==
    IF entities = <<>> THEN <<>>
    ELSE <<[name |-> entities[1].name, command |-> entities[1].command,
            params |-> entities[1].params]>> \o NameCommandParams(Tail(entities))

\* A comment line: its significant columns, left-trimmed, begin with $$.
\* A blank line: its significant columns hold white space only.
CommentLine(line) ==
    \E t \in {LStrip(DataOf(line))} : Len(t) >= 2 /\ SubSeq(t, 1, 2) = <<"$", "$">>
BlankLine(line) == \A q \in 1..Len(DataOf(line)) : DataOf(line)[q] \in Space

\* The new line stands before the first END line of the file (anywhere when
\* there is none) and is not one of the N lines after a HEADER statement line.
BeforeEnd(file, at) == \A k \in 1..(at - 1) : ~EndLine(file[k])
InHeaderLines(file, at) ==
    \E h \in 1..(at - 1) :
        IsHeaderLine(file[h]) /\ at <= h + DeclaredCount(file[h])

InsertAllowed ==
    /\ CommentLine(n_line) \/ BlankLine(n_line)
    /\ BeforeEnd(n_file, n_at)
    /\ ~InHeaderLines(n_file, n_at)

\* C19: inserting a comment line or a blank line before END and outside the N
\* lines after a HEADER statement, also between the continuation lines of one
\* statement, leaves the name, command and params of every entity unchanged.
C19_InsertKeepsEntities ==
    (n_pc = "both" /\ InsertAllowed)
    => NameCommandParams(n_edited) = NameCommandParams(n_plain)

\* An indented comment line was put between the first line of a statement and
\* its continuation line, and the statement gave an entity with the tokens of
\* both lines.
C19_Witness ==
    /\ n_pc = "both" /\ InsertAllowed
    /\ n_line = LineCommentIndented
    /\ n_at >= 2 /\ n_at <= Len(n_file)
    /\ n_file[n_at - 1] = LineCurve /\ n_file[n_at] = LineCont
    /\ \E q \in 1..Len(n_edited) :
         /\ n_edited[q].lineno_start = n_at - 1
         /\ n_edited[q].lineno_end >= n_at + 1
         /\ Len(n_edited[q].params) = 4

----------------------------------------------------------------------------
(* Tokens of a parameter tail *)

\* Where the field that starts behind position b ends: the next comma, or
\* the end of the tail.
FieldEnd(tail, b) ==
    SetMin({c \in (b + 1)..(Len(tail) + 1) : c = Len(tail) + 1 \/ tail[c] = ","})

RECURSIVE FieldsBehind(_, _)
\* The trimmed, non-empty comma-separated fields behind position b, in order.
FieldsBehind(tail, b) ==
    IF b > Len(tail) THEN <<>>
    ELSE (IF Strip(SubSeq(tail, b + 1, FieldEnd(tail, b) - 1)) = <<>> THEN <<>>
          ELSE <<Strip(SubSeq(tail, b + 1, FieldEnd(tail, b) - 1))>>)
         \o FieldsBehind(tail, FieldEnd(tail, b))

NonEmptyFields(tail) == FieldsBehind(tail, 0)

\* What a field is: a reference (two uppercase letters, then digits), else
\* an integer ([sign] digits), else a float (it parses as one), else a string.
FieldKind(fld) ==
    IF Len(fld) >= 3 /\ {fld[1], fld[2]} \subseteq UpperL
       /\ \A q \in 3..Len(fld) : fld[q] \in Digit THEN "reference"
    ELSE IF IntMatch(fld) THEN "integer"
    ELSE IF FloatParse(fld).ok THEN "float"
    ELSE "string"

FieldToken(fld, kind) ==
    CASE kind = "reference" -> Str(fld)
      [] kind = "integer" -> Num(IntVal(fld), 1)
      [] kind = "float" -> NumR(FloatParse(fld).val)
      [] kind = "string" -> Str(fld)

FieldType(kind) ==
    CASE kind = "reference" -> "str"
      [] kind = "integer" -> "int"
      [] kind = "float" -> "float"
      [] kind = "string" -> "str"

Tokenized == t_pc = "done"

\* C20: _split_params yields one token per non-empty comma-separated field of
\* the tail, in order, from the trimmed field: the field itself as a string
\* for a reference, else an int if it parses as one, else a float if it parses
\* as one, else the field itself as a string; empty fields give no token.
C20_OneTokenPerField ==
    Tokenized =>
        /\ Len(t_tokens) = Len(NonEmptyFields(t_tail))
        /\ Len(t_types) = Len(NonEmptyFields(t_tail))
        /\ \A q \in 1..Len(NonEmptyFields(t_tail)) :
             \E kind \in {FieldKind(NonEmptyFields(t_tail)[q])} :
                /\ t_tokens[q] = FieldToken(NonEmptyFields(t_tail)[q], kind)
                /\ t_types[q] = FieldType(kind)

\* A tail of three fields, the middle one empty, gave an int and then a
\* reference that was written with blanks around it.
C20_Witness ==
    /\ Tokenized
    /\ Len(SplitComma(t_tail)) = 3 /\ Strip(SplitComma(t_tail)[2]) = <<>>
    /\ Len(t_tokens) = 2
    /\ t_types = <<"int", "str">>
    /\ t_tokens[1] = Num(7, 1)
    /\ t_tokens[2] = Str(<<"C", "V", "5", "7">>)
    /\ Len(SplitComma(t_tail)[3]) > 4

----------------------------------------------------------------------------
(* The segment eval_curve_at_t evaluates *)

CurveEvaluated == c_pc = "done" /\ c_op.op = "eval"

\* The 0-based segment indices i with tc <= breakpoints[i+1].
SegmentsReaching(curve, tc) ==
    {i \in 0..(Len(curve.segments) - 1) : RLe(tc, Val(curve.pars[i + 2]))}

PointOfSegment(curve, i, tc) ==
    SegPoint(curve.segments[i + 1],
             RDiv(RSub(tc, Val(curve.pars[i + 1])),
                  RSub(Val(curve.pars[i + 2]), Val(curve.pars[i + 1]))))

StrictlyIncreasing(pars) ==
    \A q \in 1..(Len(pars) - 1) : RLt(Val(pars[q]), Val(pars[q + 1]))

----------------------------------------------------------------------------
(* The first and the last point of sample_curve *)

\* C30 (as stated): for both values of include_knots, every point of
\* sample_curve is a segment evaluated at a local parameter j/m, 0 <= j <= m,
\* the first point is the first segment at u = 0 and the last point is the last
\* segment at u = 1.
C30_EndPointSampled ==
    Sampled =>
        \E m \in {Max(2, c_op.sps)} :
            /\ \A q \in 1..Len(c_op.pts) :
                 \E k \in 1..Len(c_curve.segments), j \in 0..m :
                    c_op.pts[q] = SegPoint(c_curve.segments[k], Rat(j, m))
            /\ c_op.pts[1] = SegPoint(c_curve.segments[1], RInt(0))
            /\ c_op.pts[Len(c_op.pts)]
                 = SegPoint(c_curve.segments[Len(c_curve.segments)], RInt(1))

\* A curve of two segments was sampled without the interior knots, and its
\* last segment is not constant.
C30_TwoSegmentsNoKnots ==
    /\ Sampled /\ ~c_op.knots
    /\ Len(c_curve.segments) = 2
    /\ SegPoint(c_curve.segments[2], RInt(0)) # SegPoint(c_curve.segments[2], RInt(1))

----------------------------------------------------------------------------
(* The patch eval_surf_at_uv evaluates *)

\* The 0-based interval indices i with x <= breakpoints[i+1].
IntervalsReaching(pars, x) == {i \in 0..(Len(pars) - 2) : RLe(x, Val(pars[i + 2]))}

PatchesAt(surf, ps, pt) ==
    {q \in 1..Len(surf.patches) : surf.patches[q].u_idx = ps /\ surf.patches[q].v_idx = pt}

Fraction(pars, i, x) ==
    RDiv(RSub(x, Val(pars[i + 1])), RSub(Val(pars[i + 2]), Val(pars[i + 1])))

InUnit(r) == RLe(RInt(0), r) /\ RLe(r, RInt(1))

\* The point of the patch (ps, pt) for the clamped parameters sc, tc.
PointOfPatch(surf, ps, pt, sc, tc) ==
    PatchPoint(surf.patches[SetMin(PatchesAt(surf, ps, pt))],
               Fraction(surf.u_pars, ps, sc), Fraction(surf.v_pars, pt, tc))

PatchFound(surf, sc, tc) ==
    /\ IntervalsReaching(surf.u_pars, sc) # {}
    /\ IntervalsReaching(surf.v_pars, tc) # {}
    /\ PatchesAt(surf, SetMin(IntervalsReaching(surf.u_pars, sc)),
                 SetMin(IntervalsReaching(surf.v_pars, tc))) # {}

\* C23: eval_surf_at_uv clamps s and t into their global ranges and evaluates
\* the patch (ps, pt), ps the least index with s <= s_breakpoints[ps+1] and pt
\* the least index with t <= t_breakpoints[pt+1]; for a decoded surface both
\* indices and the patch exist, so no fall back is taken, and for strictly
\* increasing breakpoints the local fractions lie in [0, 1].
C23_PatchFound ==
    SEvaluated =>
        \E sc \in {ClampSurf(s_surf.u_pars, s_op.u)}, tc \in {ClampSurf(s_surf.v_pars, s_op.v)} :
            /\ PatchFound(s_surf, sc, tc)
            /\ s_op.pts[1] = PointOfPatch(s_surf, SetMin(IntervalsReaching(s_surf.u_pars, sc)),
                                          SetMin(IntervalsReaching(s_surf.v_pars, tc)), sc, tc)
            /\ (StrictlyIncreasing(s_surf.u_pars) /\ StrictlyIncreasing(s_surf.v_pars))
               => /\ InUnit(ResolveUV(s_surf, s_op.u, s_op.v).uu)
                  /\ InUnit(ResolveUV(s_surf, s_op.u, s_op.v).vv)

\* A surface of 2 x 2 patches with decreasing s-breakpoints and increasing
\* t-breakpoints was evaluated at parameters strictly between the end values,
\* and the patch found is not the last one.
C23_Witness ==
    /\ SEvaluated
    /\ s_surf.nu = 2 /\ s_surf.nv = 2
    /\ StrictlyIncreasing(s_surf.v_pars)
    /\ RLt(Val(s_surf.u_pars[3]), s_op.u) /\ RLt(s_op.u, Val(s_surf.u_pars[1]))
    /\ RLt(Val(s_surf.v_pars[1]), s_op.v) /\ RLt(s_op.v, Val(s_surf.v_pars[2]))
    /\ ResolveUV(s_surf, s_op.u, s_op.v).patch # s_surf.patches[4]

----------------------------------------------------------------------------
(* One entity per statement *)

\* The lines that start a statement the reader coalesces: statement starts
\* before the first END line.
StmtStarts(file) ==
    {ln \in 1..Len(file) :
        IsStart(file[ln]) /\ \A k \in 1..ln : ~IsEndLine(DataOf(file[k]))}

ParsedAt(file, ln) == _stmt_parse(TextOf(file, ln, StmtLast(file, ln)))

\* A parsed statement of command END: the read ends there.
EndStmts(file) ==
    {ln \in StmtStarts(file) : ParsedAt(file, ln).ok /\ ParsedAt(file, ln).word = END}

\* The statements that parse, read before any END statement (ends), whose
\* command is neither HEADER nor END.
EntityStmts(file, ends) ==
    {ln \in StmtStarts(file) :
        /\ \A e \in ends : ln < e
        /\ \E m \in {ParsedAt(file, ln)} : m.ok /\ m.word \notin {HEADER, END}}

EntityOfStmt(entity, ln, m) ==
    entity.lineno_start = ln /\ entity.name = m.name /\ entity.command = m.word

\* C22: every coalesced statement that parses and whose command is neither
\* HEADER nor END yields exactly one entity with its name and command word,
\* whatever the word; the entities are in the order of their statements, and no
\* entity has the command HEADER or END.
C22_OneEntityPerStatement ==
    ReadDone =>
        \E stmts \in {EntityStmts(r_file, EndStmts(r_file))} :
            /\ Len(r_entities) = Cardinality(stmts)
            /\ \A ln \in stmts :
                 EntityOfStmt(r_entities[Cardinality({x \in stmts : x <= ln})], ln,
                              ParsedAt(r_file, ln))
            /\ \A q \in 1..Len(r_entities) : r_entities[q].command \notin {HEADER, END}

\* A file with a HEADER statement, a statement of a command that is none of
\* the format and a CURVE statement gave two entities, the unknown one first.
C22_Witness ==
    /\ ReadDone
    /\ r_header.present
    /\ Len(r_entities) = 2
    /\ r_entities[1].command = <<"B", "L", "O", "B">>
    /\ r_entities[2].command = <<"C", "U", "R", "V", "E">>

----------------------------------------------------------------------------
(* The header's line count *)

\* C26 (as stated): the header's declared line count is the integer N written
\* on the HEADER statement line itself, and the header holds exactly max(0, N)
\* lines, whatever the lines after the HEADER statement line hold.
C26_CountFromHeaderLine ==
    (ReadDone /\ r_header.present /\ IsHeaderLine(r_file[r_header.lineno_start]))
    => /\ r_header.n_lines = DeclaredCount(r_file[r_header.lineno_start])
       /\ Len(r_header.lines) = Max(0, DeclaredCount(r_file[r_header.lineno_start]))

\* The line after the HEADER statement line begins with a digit.
C26_DigitsFollow ==
    /\ ReadDone /\ r_header.present
    /\ r_header.lineno_start < Len(r_file)
    /\ IsHeaderLine(r_file[r_header.lineno_start])
    /\ r_file[r_header.lineno_start + 1][1] \in Digit

----------------------------------------------------------------------------
(* Buckets and names of the index *)

IndexBuilt == i_pc = "built"

Occurrences(bucket, nm) == Cardinality({q \in 1..Len(bucket) : bucket[q] = nm})

\* C25 (as stated): in every index built by build_index, each name listed
\* under by_type[cmd] occurs there once and resolves through by_name to an
\* entity whose command is cmd, also when two entities share a name.
C25_BucketsResolve ==
    IndexBuilt =>
        \A cmd \in DOMAIN i_index.by_type :
            \A q \in 1..Len(i_index.by_type[cmd]) :
                \E nm \in {i_index.by_type[cmd][q]} :
                    /\ Occurrences(i_index.by_type[cmd], nm) = 1
                    /\ nm \in DOMAIN i_index.by_name
                    /\ i_index.by_name[nm].command = cmd

\* The index of a model in which a SURF and a later CURVE share a name.
C25_SharedName ==
    /\ IndexBuilt
    /\ \E a \in 1..Len(i_model), b \in 1..Len(i_model) :
         /\ a < b /\ i_model[a].name = i_model[b].name
         /\ i_model[a].command = SURF /\ i_model[b].command = CURVE

----------------------------------------------------------------------------
(* The p-curve of a decoded CONS *)

ConsDecodedWithPc == k_pc = "decoded" /\ k_cons.has_pc

WellFormedSegment(pc, k) ==
    /\ pc.segments[k].order >= 1
    /\ Len(pc.segments[k].as) = pc.segments[k].order
    /\ Len(pc.segments[k].at) = pc.segments[k].order
    /\ pc.segments[k].t0 = pc.pars[k]
    /\ pc.segments[k].t1 = pc.pars[k + 1]

\* C27 (as stated): whenever decode_cons_entity returns a p-curve, its segment
\* count n >= 1 is the number of its segments, it has n+1 breakpoints, and
\* every segment has an order K >= 1, K s-coefficients, K t-coefficients and
\* t0, t1 equal to the breakpoints k and k+1.
C27_PcurveWellFormed ==
    ConsDecodedWithPc =>
        /\ k_cons.pc.n >= 1
        /\ k_cons.pc.n = Len(k_cons.pc.segments)
        /\ Len(k_cons.pc.pars) = k_cons.pc.n + 1
        /\ \A k \in 1..Len(k_cons.pc.segments) : WellFormedSegment(k_cons.pc, k)

\* A p-curve was returned for a CONS whose token list ends inside a segment.
C27_TruncatedSegment ==
    /\ ConsDecodedWithPc
    /\ Len(k_cons.pc.segments) < Len(k_cons.pc.pars) - 1
    /\ k_entity.params[Len(k_entity.params)].k = "num"

----------------------------------------------------------------------------
(* The loops of a decoded FACE *)

RECURSIVE TokensOfLoops(_, _)
\* The tokens the first q loops took: a count and three per item.
TokensOfLoops(loops, q) ==
    IF q = 0 THEN 0 ELSE TokensOfLoops(loops, q - 1) + 1 + 3 * Len(loops[q].items)

\* The count token of loop q (1-based) of the loops decoded so far.
CountToken(params, loops, q) ==
    At(params, (IF FaceSkipsCount(params) THEN 2 ELSE 1) + TokensOfLoops(loops, q - 1))

LoopShape(loop) ==
    /\ Len(loop.items) >= 1
    /\ loop.count = Len(loop.items)
    /\ \A j \in 1..Len(loop.items) :
         Len(loop.items[j].cons) >= 2 /\ SubSeq(loop.items[j].cons, 1, 2) = <<"C", "N">>

\* C28 (as stated): every loop of a face returned by decode_face_entity has
\* at least one item, its count is its number of items, that number does not
\* exceed the count token declared for that loop in the input, and every
\* item's cons reference is a string that begins with CN.
C28_LoopsAsStated ==
    f_pc = "done" =>
        \A q \in 1..Len(f_loops) :
            /\ LoopShape(f_loops[q])
            /\ IsNumeric(CountToken(f_entity.params, f_loops, q))
            /\ RLe(RInt(Len(f_loops[q].items)), Val(CountToken(f_entity.params, f_loops, q)))

\* C28: every loop of a face returned by decode_face_entity has at least one
\* item, its count is its number of items, that number does not exceed the
\* count token declared for that loop rounded to the nearest integer, and
\* every item's cons reference is a string that begins with CN.
C28_LoopsWellFormed ==
    f_pc = "done" =>
        \A q \in 1..Len(f_loops) :
            /\ LoopShape(f_loops[q])
            /\ IsNumeric(CountToken(f_entity.params, f_loops, q))
            /\ Len(f_loops[q].items)
                 <= RoundHalfEven(Val(CountToken(f_entity.params, f_loops, q)))

\* A face of two loops was returned, the second with fewer items than its
\* count token declares.
C28_Witness ==
    /\ f_pc = "done"
    /\ Len(f_loops) = 2
    /\ RLt(RInt(Len(f_loops[2].items)), Val(CountToken(f_entity.params, f_loops, 2)))

----------------------------------------------------------------------------
(* Termination of decode_face_entity *)

FaceReturned == f_pc \in {"done", "failed"}

\* The read cursor i is set once the checks before the loops have passed.
CursorInRange ==
    f_pc \in {"while", "for", "endfor", "done"}
    => (1 <= f_i /\ f_i <= Len(f_entity.params))

\* C29: decode_face_entity terminates on every token list, by a return or an
\* exception, and its read cursor i always stays between 1 and the length of
\* the token list.
C29_Terminates == <>FaceReturned /\ []CursorInRange

\* The decoder returned from a loop whose count is larger than the number of
\* triples left, with the cursor on the last token.
C29_Witness ==
    /\ f_pc = "done"
    /\ f_left > 0
    /\ TripleOutcome(f_entity.params, f_i) = "short"
    /\ f_i = Len(f_entity.params) - 1

----------------------------------------------------------------------------
\* C21: sampling a decoded surface of P patches with densities nu, nv returns
\* a pair (vertices, triangles): P * (nu + 1) * (nv + 1) vertices, the
\* (nu + 1) x (nv + 1) grid points of each patch (seam points kept once per
\* patch), and 2 * P * nu * nv triangles, each three indices of existing
\* vertices.  The pair is read as the callers unpack it: vertices first.
SurfSampled == s_op.op \in {"sample", "plot"}

IsPoint(x) == Len(x) = 3 /\ \A k \in 1..3 : Len(x[k]) = 2 /\ x[k] = Rat(x[k][1], x[k][2])

IsTriangle(x, n) == Len(x) = 3 /\ \A k \in 1..3 : x[k] \in 0..(n - 1)

GridPoints(p, nu, nv) ==
    {PatchPoint(p, Rat(i, nu), Rat(j, nv)) : i \in 0..nu, j \in 0..nv}

MeshOf(surf, nu, nv, vertices, triangles) ==
    /\ Len(vertices) = Len(surf.patches) * (nu + 1) * (nv + 1)
    /\ Len(triangles) = 2 * Len(surf.patches) * nu * nv
    /\ \A q \in 1..Len(vertices) : IsPoint(vertices[q])
    /\ \A q \in 1..Len(triangles) : IsTriangle(triangles[q], Len(vertices))
    /\ \A q \in 1..Len(surf.patches) :
         GridPoints(surf.patches[q], nu, nv) \subseteq {vertices[k] : k \in 1..Len(vertices)}

C21_SampledMesh ==
    SurfSampled =>
      /\ s_pc = "done"
      /\ MeshOf(s_surf, s_op.u[1], s_op.v[1], s_op.pts[1], s_op.pts[2])

\* Two patches side by side in u sampled with nu = 2, nv = 3 and knots: the
\* call returns 2 * 4 lines of 3 points and 2 * 3 lines of 4 points.
C21_TwoPatchesSampled ==
    /\ s_pc = "done" /\ s_op.op = "sample"
    /\ Len(s_surf.patches) = 2 /\ s_surf.patches[2].u_idx = 1
    /\ s_op.u = RInt(2) /\ s_op.v = RInt(3)
    /\ Len(s_op.pts[1]) = 8 /\ \A q \in 1..8 : Len(s_op.pts[1][q]) = 3
    /\ Len(s_op.pts[2]) = 6 /\ \A q \in 1..6 : Len(s_op.pts[2][q]) = 4

====
